---- MODULE Spec2Model ----
(***************************************************************************)
(* Veridian Hold'em: the confidential hand evaluator and winner decision   *)
(* of solana/encrypted-ixs (lib.rs `circuits::determine_winner` and the    *)
(* stand-alone hand_eval.rs), the shuffle_and_deal circuit, and the table   *)
(* program of solana/programs/veridian-holdem, modelled as state machines. *)
(*                                                                         *)
(* Rust arrays are 0-based, TLA+ sequences 1-based: array slot i of the    *)
(* source is element i+1 of the sequence that models it.                   *)
(***************************************************************************)
EXTENDS Integers, Sequences, FiniteSets, TLC

VARIABLES
    pc,         \* position of the run
    handA,      \* first 5-card input array of an evaluation run
    handB,      \* second 5-card input array of an evaluation run
    evA,        \* lib.rs evaluate_hand(handA): the locals of the function
    evB,        \* lib.rs evaluate_hand(handB)
    heA,        \* hand_eval.rs evaluate_hand(handA)
    heB,        \* hand_eval.rs evaluate_hand(handB)
    p1_cards,   \* determine_winner: player 1's two hole cards (secret)
    p2_cards,   \* determine_winner: player 2's two hole cards (secret)
    board,      \* determine_winner: the five public community cards
    dw,         \* determine_winner: the locals of the instruction
    revealed,   \* every value that crossed the boundary through .reveal()
    rng,        \* shuffle_and_deal: the outcome of ArcisRNG for this run
    sd,         \* shuffle_and_deal: the three values it returns (plaintext)
    reveals,    \* reveal_community_cards: the calls made on the deck of sd
    gs,         \* the GameState account of the table
    hand_state, \* the HandState account of the table
    config,     \* the Config account (rake settings)
    table_config, \* the TableConfig account (blinds, buy-in)
    clock,      \* Clock::get()?.unix_timestamp
    tokens,     \* SPL token balances: escrow, treasury, the players' wallets
    pending,    \* computations queued with the network, not yet called back
    ix          \* the last instruction processed and its result

evalVars == <<handA, handB, evA, evB, heA, heB>>
winnerVars == <<p1_cards, p2_cards, board, dw, revealed>>
dealVars == <<rng, sd, reveals>>
tableVars == <<gs, hand_state, config, table_config, clock, tokens, pending, ix>>
vars == <<pc, evalVars, winnerVars, dealVars, tableVars>>

\* The value of a variable that holds nothing yet.
None == <<>>

\* ------------------------------------------------------------------------
\* Constants of the source
\* ------------------------------------------------------------------------
HIGH_CARD_RANK == 0
ONE_PAIR_RANK == 1
TWO_PAIR_RANK == 2
THREE_OF_A_KIND_RANK == 3
STRAIGHT_RANK == 4
FLUSH_RANK == 5
FULL_HOUSE_RANK == 6
FOUR_OF_A_KIND_RANK == 7
STRAIGHT_FLUSH_RANK == 8

RANK_ACE == 12
RANK_FIVE == 3
RANK_FOUR == 2
RANK_THREE == 1
RANK_TWO == 0

\* ------------------------------------------------------------------------
\* Machine arithmetic
\* ------------------------------------------------------------------------
\* `as u8` / `as u16` of a wider value, and wrapping u8/u16 arithmetic.
U8(x) == x % 256
U16(x) == x % 65536

\* `b as u8`, `b as u64` of a bool.
B2I(b) == IF b THEN 1 ELSE 0

\* slice::sort (ascending) followed by slice::reverse.  InsertSorted puts x
\* into the ascending sequence s, after the elements smaller than x.
InsertSorted(x, s) ==
    LET k == Cardinality({i \in 1..Len(s) : s[i] < x})
    IN  SubSeq(s, 1, k) \o <<x>> \o SubSeq(s, k + 1, Len(s))

RECURSIVE sort(_)
sort(s) == IF s = <<>> THEN <<>> ELSE InsertSorted(Head(s), sort(Tail(s)))

reverse(s) == [i \in 1..Len(s) |-> s[Len(s) + 1 - i]]

\* `a << k`, `a >> k` on unsigned values far below the u64 limit.
Shl(a, k) == a * (2 ^ k)
Shr(a, k) == a \div (2 ^ k)

\* Bitwise `a | b` and `a & b` on naturals, four bits at a time.
NibbleOr(x, y) ==
    B2I((x % 2 = 1) \/ (y % 2 = 1))
    + 2 * B2I(((x \div 2) % 2 = 1) \/ ((y \div 2) % 2 = 1))
    + 4 * B2I(((x \div 4) % 2 = 1) \/ ((y \div 4) % 2 = 1))
    + 8 * B2I(((x \div 8) % 2 = 1) \/ ((y \div 8) % 2 = 1))

NibbleAnd(x, y) ==
    B2I((x % 2 = 1) /\ (y % 2 = 1))
    + 2 * B2I(((x \div 2) % 2 = 1) /\ ((y \div 2) % 2 = 1))
    + 4 * B2I(((x \div 4) % 2 = 1) /\ ((y \div 4) % 2 = 1))
    + 8 * B2I(((x \div 8) % 2 = 1) /\ ((y \div 8) % 2 = 1))

RECURSIVE BitOr(_, _)
BitOr(a, b) ==
    IF a = 0 THEN b
    ELSE IF b = 0 THEN a
    ELSE NibbleOr(a % 16, b % 16) + 16 * BitOr(a \div 16, b \div 16)

RECURSIVE BitAnd(_, _)
BitAnd(a, b) ==
    IF a = 0 \/ b = 0 THEN 0
    ELSE NibbleAnd(a % 16, b % 16) + 16 * BitAnd(a \div 16, b \div 16)

\* ------------------------------------------------------------------------
\* evaluate_hand, steps 1-5 (the text of lib.rs 137-198 and of
\* hand_eval.rs 59-120 is the same)
\* ------------------------------------------------------------------------
card_rank(card) == card \div 4
card_suit(card) == card % 4

\* ranks[i] = hand[i] / 4; ranks.sort(); ranks.reverse();
sorted_ranks(hand) == reverse(sort([i \in 1..5 |-> card_rank(hand[i])]))

hand_suits(hand) == [i \in 1..5 |-> card_suit(hand[i])]

\* rank_counts[rank] += 1 for each of the five ranks; slot r+1 counts rank r.
rank_counts(ranks) ==
    [r \in 1..13 |-> Cardinality({i \in 1..5 : ranks[i] = r - 1})]

is_flush(suits) ==
    /\ suits[1] = suits[2]
    /\ suits[1] = suits[3]
    /\ suits[1] = suits[4]
    /\ suits[1] = suits[5]

\* Mutant of is_straight_gapped: the four inequalities are missing.
is_straight_gapped_spread_only(ranks) ==
    U8(ranks[1] - ranks[5]) = 4

is_straight_gapped(ranks) ==
    /\ U8(ranks[1] - ranks[5]) = 4
    /\ ranks[1] # ranks[2]
    /\ ranks[2] # ranks[3]
    /\ ranks[3] # ranks[4]
    /\ ranks[4] # ranks[5]

\* Mutant of is_wheel: the Ace expected where it would sort if it were low.
is_wheel_ace_last(ranks) ==
    /\ ranks[1] = RANK_FIVE
    /\ ranks[2] = RANK_FOUR
    /\ ranks[3] = RANK_THREE
    /\ ranks[4] = RANK_TWO
    /\ ranks[5] = RANK_ACE

is_wheel(ranks) ==
    /\ ranks[1] = RANK_ACE
    /\ ranks[2] = RANK_FIVE
    /\ ranks[3] = RANK_FOUR
    /\ ranks[4] = RANK_THREE
    /\ ranks[5] = RANK_TWO

\* is_straight = is_straight_gapped | is_wheel
is_straight(ranks) == is_straight_gapped(ranks) \/ is_wheel(ranks)

\* num_quads / num_trips / num_pairs: how many of the 13 counts equal n.
num_with_count(counts, n) == Cardinality({r \in 1..13 : counts[r] = n})

\* Mutant of category_terms: the flush term does not exclude the straight
\* flush.
category_terms_flush_unguarded(ranks, suits, counts) ==
    LET flush == is_flush(suits)
        straight == is_straight_gapped(ranks) \/ is_wheel(ranks)
        is_straight_flush == straight /\ flush
        num_quads == num_with_count(counts, 4)
        num_trips == num_with_count(counts, 3)
        num_pairs == num_with_count(counts, 2)
        is_four_of_a_kind == num_quads = 1
        is_full_house == (num_trips = 1) /\ (num_pairs = 1)
        is_three_of_a_kind == (num_trips = 1) /\ (num_pairs = 0)
        is_two_pair == num_pairs = 2
        is_one_pair == (num_pairs = 1) /\ (num_trips = 0)
    IN  << is_straight_flush,
           ~is_straight_flush /\ is_four_of_a_kind,
           ~is_straight_flush /\ ~is_four_of_a_kind /\ is_full_house,
           ~is_four_of_a_kind /\ ~is_full_house /\ flush,
           ~is_straight_flush /\ ~is_four_of_a_kind /\ ~is_full_house
               /\ ~flush /\ straight,
           ~straight /\ ~flush /\ is_three_of_a_kind,
           ~straight /\ ~flush /\ ~is_three_of_a_kind /\ is_two_pair,
           ~straight /\ ~flush /\ ~is_three_of_a_kind /\ ~is_two_pair
               /\ is_one_pair,
           ~straight /\ ~flush /\ ~is_one_pair /\ ~is_two_pair
               /\ ~is_three_of_a_kind /\ ~is_full_house /\ ~is_four_of_a_kind >>

\* The nine terms of the hand_rank sum, in source order: slot 1 is the
\* straight-flush term, slot 9 the high-card term.
category_terms(ranks, suits, counts) ==
    LET flush == is_flush(suits)
        straight == is_straight_gapped(ranks) \/ is_wheel(ranks)
        is_straight_flush == straight /\ flush
        num_quads == num_with_count(counts, 4)
        num_trips == num_with_count(counts, 3)
        num_pairs == num_with_count(counts, 2)
        is_four_of_a_kind == num_quads = 1
        is_full_house == (num_trips = 1) /\ (num_pairs = 1)
        is_three_of_a_kind == (num_trips = 1) /\ (num_pairs = 0)
        is_two_pair == num_pairs = 2
        is_one_pair == (num_pairs = 1) /\ (num_trips = 0)
    IN  << is_straight_flush,
           ~is_straight_flush /\ is_four_of_a_kind,
           ~is_straight_flush /\ ~is_four_of_a_kind /\ is_full_house,
           ~is_straight_flush /\ ~is_four_of_a_kind /\ ~is_full_house /\ flush,
           ~is_straight_flush /\ ~is_four_of_a_kind /\ ~is_full_house
               /\ ~flush /\ straight,
           ~straight /\ ~flush /\ is_three_of_a_kind,
           ~straight /\ ~flush /\ ~is_three_of_a_kind /\ is_two_pair,
           ~straight /\ ~flush /\ ~is_three_of_a_kind /\ ~is_two_pair
               /\ is_one_pair,
           ~straight /\ ~flush /\ ~is_one_pair /\ ~is_two_pair
               /\ ~is_three_of_a_kind /\ ~is_full_house /\ ~is_four_of_a_kind >>

\* The category value each term is multiplied by.
TermRank ==
    << STRAIGHT_FLUSH_RANK, FOUR_OF_A_KIND_RANK, FULL_HOUSE_RANK, FLUSH_RANK,
       STRAIGHT_RANK, THREE_OF_A_KIND_RANK, TWO_PAIR_RANK, ONE_PAIR_RANK,
       HIGH_CARD_RANK >>

RECURSIVE SumTerms(_, _)
SumTerms(terms, k) ==
    IF k = 0 THEN 0 ELSE B2I(terms[k]) * TermRank[k] + SumTerms(terms, k - 1)

\* hand_rank = sum of (term as u64 * category value).
hand_rank(terms) == SumTerms(terms, 9)

\* ------------------------------------------------------------------------
\* evaluate_hand, step 6: ordered kickers, lib.rs (circuit) form
\* ------------------------------------------------------------------------
\* Mutant of packed_ranks: the reverse() after the sort is missing.
packed_ranks_unreversed(counts) ==
    sort([i \in 1..13 |-> U16(U16(counts[i] * 256) + (i - 1))])

\* packed_ranks[i] = (rank_counts[i] as u16) * 256 + i; sort; reverse.
packed_ranks(counts) ==
    reverse(sort([i \in 1..13 |-> U16(U16(counts[i] * 256) + (i - 1))]))

\* Mutant of mux_write: the guard is kicker_idx < 4.
mux_write_below_4(st, count, rank, j) ==
    LET should_add == (count > j) /\ (st.kicker_idx < 4)
        slot == st.kicker_idx + 1
        in_array == slot \in 1..5
        old == IF in_array THEN st.ordered_kickers[slot] ELSE 0
        new == U8(B2I(should_add) * rank + B2I(~should_add) * old)
    IN  [ ordered_kickers |->
              IF in_array THEN [st.ordered_kickers EXCEPT ![slot] = new]
              ELSE st.ordered_kickers,
          kicker_idx |-> U8(st.kicker_idx + B2I(should_add)),
          writes |-> st.writes + 1 ]

\* One multiplexed write of the unrolled body, for the constant j of
\* `count > j`.  st = [ordered_kickers, kicker_idx, writes].  The index is a
\* secret value: the circuit selects among the five slots of the array, so
\* with kicker_idx = 5 no slot is selected and none changes (should_add is
\* false there, the value written back would be the one read).
mux_write(st, count, rank, j) ==
    LET should_add == (count > j) /\ (st.kicker_idx < 5)
        slot == st.kicker_idx + 1
        in_array == slot \in 1..5
        old == IF in_array THEN st.ordered_kickers[slot] ELSE 0
        new == U8(B2I(should_add) * rank + B2I(~should_add) * old)
    IN  [ ordered_kickers |->
              IF in_array THEN [st.ordered_kickers EXCEPT ![slot] = new]
              ELSE st.ordered_kickers,
          kicker_idx |-> U8(st.kicker_idx + B2I(should_add)),
          writes |-> st.writes + 1 ]

\* The body of `for i in 0..13`: five multiplexed writes, whatever count is.
unrolled_body(st, packed) ==
    LET count == U8(packed \div 256)
        rank == U8(packed % 256)
        s0 == mux_write(st, count, rank, 0)
        s1 == mux_write(s0, count, rank, 1)
        s2 == mux_write(s1, count, rank, 2)
        s3 == mux_write(s2, count, rank, 3)
    IN  mux_write(s3, count, rank, 4)

\* The kicker expansion loop over packed_ranks[0..13).  `trace` records, for
\* each of the 13 iterations, how many array writes the iteration executed.
RECURSIVE expand_kickers(_, _)
expand_kickers(packed, n) ==
    IF n = 0
    THEN [ordered_kickers |-> <<0, 0, 0, 0, 0>>, kicker_idx |-> 0, trace |-> <<>>]
    ELSE LET before == expand_kickers(packed, n - 1)
             after == unrolled_body(
                          [ordered_kickers |-> before.ordered_kickers,
                           kicker_idx |-> before.kicker_idx, writes |-> 0],
                          packed[n])
         IN  [trace |-> Append(before.trace, after.writes),
              ordered_kickers |-> after.ordered_kickers,
              kicker_idx |-> after.kicker_idx]

\* Mutant of apply_wheel_override: the override is not applied.
apply_wheel_override_skipped(wheel, kickers) == kickers

\* wheel_kicker_override and the multiplexer that applies it.
wheel_kicker_override == <<RANK_FIVE, RANK_FOUR, RANK_THREE, RANK_TWO, RANK_ACE>>

apply_wheel_override(wheel, kickers) ==
    [i \in 1..5 |->
        U8(B2I(wheel) * wheel_kicker_override[i] + B2I(~wheel) * kickers[i])]

\* Mutant of assemble_score: the category is placed at 2^16, over kicker 1.
assemble_score_rank_at_16(rank, k) ==
    rank * 65536 + k[1] * 65536 + k[2] * 4096 + k[3] * 256 + k[4] * 16 + k[5] * 1

\* score = hand_rank * 2^20 + k1 * 2^16 + k2 * 2^12 + k3 * 2^8 + k4 * 2^4 + k5
assemble_score(rank, k) ==
    rank * 1048576 + k[1] * 65536 + k[2] * 4096 + k[3] * 256 + k[4] * 16 + k[5] * 1

\* evaluate_hand of lib.rs, returning every local the claims speak about.
evaluate_hand(hand) ==
    LET ranks == sorted_ranks(hand)
        suits == hand_suits(hand)
        counts == rank_counts(ranks)
        terms == category_terms(ranks, suits, counts)
        hrank == hand_rank(terms)
        packed == packed_ranks(counts)
        ex == expand_kickers(packed, 13)
        wheel == is_wheel(ranks)
        kickers == apply_wheel_override(wheel, ex.ordered_kickers)
    IN  [ ranks |-> ranks,
          rank_counts |-> counts,
          is_wheel |-> wheel,
          is_straight |-> is_straight(ranks),
          terms |-> terms,
          hand_rank |-> hrank,
          packed_ranks |-> packed,
          generic_kickers |-> ex.ordered_kickers,
          kicker_idx |-> ex.kicker_idx,
          ordered_kickers |-> kickers,
          trace |-> ex.trace,
          score |-> assemble_score(hrank, kickers) ]

\* ------------------------------------------------------------------------
\* evaluate_hand, steps 6-7, hand_eval.rs form
\* ------------------------------------------------------------------------
\* packed_ranks[i] = ((rank_counts[i] as u16) << 8) | (i as u16); sort; reverse.
he_packed_ranks(counts) ==
    reverse(sort([i \in 1..13 |-> BitOr(U16(Shl(counts[i], 8)), i - 1)]))

\* `for _ in 0..count { if kicker_idx < 5 { ... } }`: `left` iterations of
\* the inner loop remain.  The write happens only inside the taken branch.
RECURSIVE he_inner_loop(_, _, _)
he_inner_loop(st, rank, left) ==
    IF left = 0 THEN st
    ELSE he_inner_loop(
             IF st.kicker_idx < 5
             THEN [ ordered_kickers |->
                        [st.ordered_kickers EXCEPT ![st.kicker_idx + 1] = rank],
                    kicker_idx |-> st.kicker_idx + 1,
                    writes |-> st.writes + 1 ]
             ELSE st,
             rank, left - 1)

RECURSIVE he_expand_kickers(_, _)
he_expand_kickers(packed, n) ==
    IF n = 0
    THEN [ordered_kickers |-> <<0, 0, 0, 0, 0>>, kicker_idx |-> 0, trace |-> <<>>]
    ELSE LET before == he_expand_kickers(packed, n - 1)
             count == U8(Shr(packed[n], 8))
             rank == U8(BitAnd(packed[n], 255))
             after == he_inner_loop(
                          [ordered_kickers |-> before.ordered_kickers,
                           kicker_idx |-> before.kicker_idx, writes |-> 0],
                          rank, count)
         IN  [trace |-> Append(before.trace, after.writes),
              ordered_kickers |-> after.ordered_kickers,
              kicker_idx |-> after.kicker_idx]

\* Mutant of he_assemble_score: kicker 1 is shifted by 15, not 16.
he_assemble_score_k1_shift15(rank, k) ==
    BitOr(BitOr(BitOr(BitOr(BitOr(Shl(rank, 20), Shl(k[1], 15)), Shl(k[2], 12)),
                      Shl(k[3], 8)), Shl(k[4], 4)), Shl(k[5], 0))

\* score = hand_rank << 20 | k1 << 16 | k2 << 12 | k3 << 8 | k4 << 4 | k5 << 0
he_assemble_score(rank, k) ==
    BitOr(BitOr(BitOr(BitOr(BitOr(Shl(rank, 20), Shl(k[1], 16)), Shl(k[2], 12)),
                      Shl(k[3], 8)), Shl(k[4], 4)), Shl(k[5], 0))

\* evaluate_hand of hand_eval.rs.
he_evaluate_hand(hand) ==
    LET ranks == sorted_ranks(hand)
        suits == hand_suits(hand)
        counts == rank_counts(ranks)
        terms == category_terms(ranks, suits, counts)
        hrank == hand_rank(terms)
        packed == he_packed_ranks(counts)
        ex == he_expand_kickers(packed, 13)
        wheel == is_wheel(ranks)
        kickers == apply_wheel_override(wheel, ex.ordered_kickers)
    IN  [ ranks |-> ranks,
          rank_counts |-> counts,
          is_wheel |-> wheel,
          is_straight |-> is_straight(ranks),
          terms |-> terms,
          hand_rank |-> hrank,
          packed_ranks |-> packed,
          generic_kickers |-> ex.ordered_kickers,
          kicker_idx |-> ex.kicker_idx,
          ordered_kickers |-> kickers,
          trace |-> ex.trace,
          score |-> he_assemble_score(hrank, kickers) ]

\* ------------------------------------------------------------------------
\* find_best_hand_from_seven and determine_winner (lib.rs)
\* ------------------------------------------------------------------------
\* Mutant of COMBINATIONS: the first row is missing, the second is there
\* twice.
COMBINATIONS_first_missing ==
    << <<0,1,2,3,5>>, <<0,1,2,3,5>>, <<0,1,2,3,6>>, <<0,1,2,4,5>>, <<0,1,2,4,6>>,
       <<0,1,2,5,6>>, <<0,1,3,4,5>>, <<0,1,3,4,6>>, <<0,1,3,5,6>>, <<0,1,4,5,6>>,
       <<0,2,3,4,5>>, <<0,2,3,4,6>>, <<0,2,3,5,6>>, <<0,2,4,5,6>>, <<0,3,4,5,6>>,
       <<1,2,3,4,5>>, <<1,2,3,4,6>>, <<1,2,3,5,6>>, <<1,2,4,5,6>>, <<1,3,4,5,6>>,
       <<2,3,4,5,6>> >>

\* The 21 index combinations, 0-based as in the source.
COMBINATIONS ==
    << <<0,1,2,3,4>>, <<0,1,2,3,5>>, <<0,1,2,3,6>>, <<0,1,2,4,5>>, <<0,1,2,4,6>>,
       <<0,1,2,5,6>>, <<0,1,3,4,5>>, <<0,1,3,4,6>>, <<0,1,3,5,6>>, <<0,1,4,5,6>>,
       <<0,2,3,4,5>>, <<0,2,3,4,6>>, <<0,2,3,5,6>>, <<0,2,4,5,6>>, <<0,3,4,5,6>>,
       <<1,2,3,4,5>>, <<1,2,3,4,6>>, <<1,2,3,5,6>>, <<1,2,4,5,6>>, <<1,3,4,5,6>>,
       <<2,3,4,5,6>> >>

\* current_hand[i] = seven_cards[combo[i]]
current_hand(seven_cards, combo) == [i \in 1..5 |-> seven_cards[combo[i] + 1]]

\* max_score = (is_greater as u64 * score) + ((!is_greater) as u64 * max_score)
max_update(score, max_score) ==
    LET is_greater == score > max_score
    IN  B2I(is_greater) * score + B2I(~is_greater) * max_score

\* The state of `for combo in COMBINATIONS` after its first n iterations:
\* max_score, and how many hands have been evaluated.
RECURSIVE best_hand_loop(_, _)
best_hand_loop(seven_cards, n) ==
    IF n = 0
    THEN [evaluations |-> 0, max_score |-> 0]
    ELSE LET before == best_hand_loop(seven_cards, n - 1)
             score == evaluate_hand(current_hand(seven_cards, COMBINATIONS[n])).score
         IN  [evaluations |-> before.evaluations + 1,
              max_score |-> max_update(score, before.max_score)]

find_best_hand_from_seven(seven_cards) ==
    best_hand_loop(seven_cards, Len(COMBINATIONS))

\* [hole[0], hole[1], board[0], ..., board[4]]
seven_cards_of(hole, community) == hole \o community

\* Mutant of winner_index: the tie term is active unless both win.
winner_index_tie_or(p1_wins, p2_wins) ==
    U8(B2I(p1_wins) * 0 + B2I(p2_wins) * 1 + B2I(~p1_wins \/ ~p2_wins) * 2)

\* winner_index = (p1_wins as u8 * 0) + (p2_wins as u8 * 1)
\*                + ((!p1_wins & !p2_wins) as u8 * 2)
winner_index(p1_wins, p2_wins) ==
    U8(B2I(p1_wins) * 0 + B2I(p2_wins) * 1 + B2I(~p1_wins /\ ~p2_wins) * 2)

\* The body of determine_winner up to the reveal.
determine_winner(p1, p2, community) ==
    LET best1 == find_best_hand_from_seven(seven_cards_of(p1, community))
        best2 == find_best_hand_from_seven(seven_cards_of(p2, community))
        p1_score == best1.max_score
        p2_score == best2.max_score
        p1_wins == p1_score > p2_score
        p2_wins == p2_score > p1_score
    IN  [ p1_score |-> p1_score,
          p2_score |-> p2_score,
          p1_evaluations |-> best1.evaluations,
          p2_evaluations |-> best2.evaluations,
          p1_wins |-> p1_wins,
          p2_wins |-> p2_wins,
          winner_index |-> winner_index(p1_wins, p2_wins) ]

\* Mutant of reveal_output: the two scores are revealed with the result.
reveal_output_with_scores(locals) ==
    <<locals.winner_index, locals.p1_score, locals.p2_score>>

\* `winner_index.reveal()`: what the instruction releases, given its locals.
reveal_output(locals) == <<locals.winner_index>>

\* ------------------------------------------------------------------------
\* shuffle_and_deal (lib.rs)
\* ------------------------------------------------------------------------
\* deck[i] = i for i in 0..52
fresh_deck == [i \in 1..52 |-> i - 1]

\* ArcisRNG::shuffle(&mut deck): the deck rearranged by the permutation the
\* generator drew.  An outcome r stands for the permutation "rotate by
\* r.rot, then exchange the slots r.swap[1] and r.swap[2]".
shuffle_slot(r, i) ==
    LET j == IF i = r.swap[1] THEN r.swap[2]
             ELSE IF i = r.swap[2] THEN r.swap[1]
             ELSE i
    IN  ((j - 1 + r.rot) % 52) + 1

shuffle(deck, r) == [i \in 1..52 |-> deck[shuffle_slot(r, i)]]

\* Mutant of board_deck_cards: the slice starts one slot early.
board_deck_cards_from_3(deck) == [i \in 1..48 |-> deck[i + 3]]

\* board_deck_cards[i] = deck[i + 4] for i in 0..48
board_deck_cards(deck) == [i \in 1..48 |-> deck[i + 4]]

\* The body of shuffle_and_deal; the three results before encryption.
shuffle_and_deal(r) ==
    LET deck == shuffle(fresh_deck, r)
    IN  [ p1_cards |-> <<deck[1], deck[2]>>,
          p2_cards |-> <<deck[3], deck[4]>>,
          board_deck |-> [ cards |-> board_deck_cards(deck),
                           dealt_community_cards |-> 0 ] ]

\* ------------------------------------------------------------------------
\* reveal_community_cards (lib.rs)
\* ------------------------------------------------------------------------
\* Mutant of reveal_community_cards: the turn does not advance dealt_community_cards.
reveal_community_cards_turn_keeps_counter(deck, phase) ==
    LET start_idx == deck.dealt_community_cards
        card(idx) == deck.cards[idx + 1]
    IN  CASE phase = 0 ->
               [ deck |-> [deck EXCEPT !.dealt_community_cards = start_idx + 3],
                 revealed_cards |-> <<card(start_idx), card(start_idx + 1),
                                      card(start_idx + 2)>> ]
          [] phase = 1 ->
               [ deck |-> deck,
                 revealed_cards |-> <<card(start_idx), 255, 255>> ]
          [] phase = 2 ->
               [ deck |-> [deck EXCEPT !.dealt_community_cards = start_idx + 1],
                 revealed_cards |-> <<card(start_idx), 255, 255>> ]
          [] OTHER ->
               [ deck |-> deck, revealed_cards |-> <<255, 255, 255>> ]

\* The body of reveal_community_cards(deck_ctxt, phase) on the decrypted
\* deck; the two results before encryption.  Slot idx of deck.cards is
\* deck.cards[idx + 1].
reveal_community_cards(deck, phase) ==
    LET start_idx == deck.dealt_community_cards
        card(idx) == deck.cards[idx + 1]
    IN  CASE phase = 0 ->
               [ deck |-> [deck EXCEPT !.dealt_community_cards = start_idx + 3],
                 revealed_cards |-> <<card(start_idx), card(start_idx + 1),
                                      card(start_idx + 2)>> ]
          [] phase = 1 \/ phase = 2 ->
               [ deck |-> [deck EXCEPT !.dealt_community_cards = start_idx + 1],
                 revealed_cards |-> <<card(start_idx), 255, 255>> ]
          [] OTHER ->
               [ deck |-> deck, revealed_cards |-> <<255, 255, 255>> ]

\* ------------------------------------------------------------------------
\* Inputs.  A card is rank * 4 + suit, rank 0 = Two ... 12 = Ace; the suit
\* numbers are written s = 0, h = 1, d = 2, c = 3 in the comments below.
\* ------------------------------------------------------------------------
\* How many cards of each arrangement the inputs are drawn from.
HandPoolSize == 10
BoardPoolSize == 6
HolePoolSize == 5

\* The cards 5-card hands are drawn from, in the order they are dealt:
\*   As 2h 6s 3s 2c 5s 3h 4s 2d 2s | Ks 6h Kh
HandCards == <<48, 1, 16, 4, 3, 12, 5, 8, 2, 0, 44, 17, 45>>

\* The cards boards are drawn from:  Qs Js Ts 9h 3d 9s | 3c Qh
BoardCards == <<40, 36, 32, 29, 6, 28, 7, 41>>

\* The cards hole cards are drawn from:  As Ks 2c 2d Ah | Kh 8s
HoleCards == <<48, 44, 3, 2, 49, 45, 24>>

\* The k-th smallest element of a set of numbers.
KthOf(I, k) == CHOOSE i \in I : Cardinality({j \in I : j < i}) = k - 1

\* Every array of `size` cards that keeps the order of cards[1..n].
Subsequences(cards, n, size) ==
    { [k \in 1..size |-> cards[KthOf(I, k)]] :
          I \in {J \in SUBSET (1..n) : Cardinality(J) = size} }

Hands == Subsequences(HandCards, HandPoolSize, 5)
Boards == Subsequences(BoardCards, BoardPoolSize, 5)
HolePairs == Subsequences(HoleCards, HolePoolSize, 2)

CardsOf(array) == {array[i] : i \in 1..Len(array)}

\* A number for each hand, to take each unordered pair of hands once.
HandNumber(h) ==
    h[1] * 7311616 + h[2] * 140608 + h[3] * 2704 + h[4] * 52 + h[5]

\* ------------------------------------------------------------------------
\* SpecEval: both evaluate_hand functions run on a hand A, then on a hand B
\* ------------------------------------------------------------------------
WinnerIdle ==
    /\ p1_cards = None
    /\ p2_cards = None
    /\ board = None
    /\ dw = None
    /\ revealed = None

DealIdle ==
    /\ rng = None
    /\ sd = None
    /\ reveals = None

TableIdle ==
    /\ gs = None
    /\ hand_state = None
    /\ config = None
    /\ table_config = None
    /\ clock = 0
    /\ tokens = None
    /\ pending = {}
    /\ ix = None

InitEval ==
    /\ pc = "inputA"
    /\ handA \in Hands
    /\ handB = None
    /\ evA = None
    /\ evB = None
    /\ heA = None
    /\ heB = None
    /\ WinnerIdle
    /\ DealIdle
    /\ TableIdle

EvaluateA ==
    /\ pc = "inputA"
    /\ evA' = evaluate_hand(handA)
    /\ heA' = he_evaluate_hand(handA)
    /\ pc' = "evaluatedA"
    /\ UNCHANGED <<handA, handB, evB, heB, winnerVars, dealVars, tableVars>>

InputB ==
    /\ pc = "evaluatedA"
    /\ handB' \in {h \in Hands : HandNumber(h) >= HandNumber(handA)}
    /\ pc' = "inputB"
    /\ UNCHANGED <<handA, evA, evB, heA, heB, winnerVars, dealVars, tableVars>>

EvaluateB ==
    /\ pc = "inputB"
    /\ evB' = evaluate_hand(handB)
    /\ heB' = he_evaluate_hand(handB)
    /\ pc' = "done"
    /\ UNCHANGED <<handA, handB, evA, heA, winnerVars, dealVars, tableVars>>

NextEval == EvaluateA \/ InputB \/ EvaluateB

SpecEval == InitEval /\ [][NextEval]_vars

\* ------------------------------------------------------------------------
\* SpecStraight: both evaluate_hand functions run on one hand drawn from
\* cards that hold the Ace-high straight, the wheel, the six-high straight,
\* the wrap-around K,A,2,3,4 and a pair
\* ------------------------------------------------------------------------
StraightPoolSize == 11

\* As Ks Qs Js Th 2s 3s 4h 5s 6s 2h | 6h
StraightCards == <<48, 44, 40, 36, 33, 0, 4, 9, 12, 16, 1, 17>>

StraightHands == Subsequences(StraightCards, StraightPoolSize, 5)

InitStraight ==
    /\ pc = "inputA"
    /\ handA \in StraightHands
    /\ handB = None
    /\ evA = None
    /\ evB = None
    /\ heA = None
    /\ heB = None
    /\ WinnerIdle
    /\ DealIdle
    /\ TableIdle

NextStraight == EvaluateA

SpecStraight == InitStraight /\ [][NextStraight]_vars

\* ------------------------------------------------------------------------
\* SpecWinner: one invocation of the determine_winner instruction
\* ------------------------------------------------------------------------
EvalIdle ==
    /\ handA = None
    /\ handB = None
    /\ evA = None
    /\ evB = None
    /\ heA = None
    /\ heB = None

InitWinner ==
    /\ pc = "dealt"
    /\ board \in Boards
    /\ p1_cards \in HolePairs
    /\ p2_cards \in {h \in HolePairs : CardsOf(h) \cap CardsOf(p1_cards) = {}}
    /\ dw = None
    /\ revealed = None
    /\ EvalIdle
    /\ DealIdle
    /\ TableIdle

DetermineWinner ==
    /\ pc = "dealt"
    /\ dw' = determine_winner(p1_cards, p2_cards, board)
    /\ revealed' = reveal_output(dw')
    /\ pc' = "revealed"
    /\ UNCHANGED <<p1_cards, p2_cards, board, evalVars, dealVars, tableVars>>

NextWinner == DetermineWinner

SpecWinner == InitWinner /\ [][NextWinner]_vars

\* ------------------------------------------------------------------------
\* SpecDeal: one invocation of the shuffle_and_deal instruction
\* ------------------------------------------------------------------------
\* The outcomes of the generator that are tried: ShuffleRotations rotations,
\* each with no exchange or an exchange of two of the first SwapRange slots.
ShuffleRotations == 10
SwapRange == 6

RngOutcomes ==
    { [rot |-> k, swap |-> <<i, j>>] :
          k \in 0..(ShuffleRotations - 1),
          i \in 1..SwapRange, j \in 1..SwapRange }

InitDeal ==
    /\ pc = "queued"
    /\ rng \in {r \in RngOutcomes : r.swap[1] <= r.swap[2]}
    /\ sd = None
    /\ reveals = <<>>
    /\ EvalIdle
    /\ WinnerIdle
    /\ TableIdle

ShuffleAndDeal ==
    /\ pc = "queued"
    /\ sd' = shuffle_and_deal(rng)
    /\ pc' = "dealt"
    /\ UNCHANGED <<rng, reveals, evalVars, winnerVars, tableVars>>

NextDeal == ShuffleAndDeal

SpecDeal == InitDeal /\ [][NextDeal]_vars

\* ------------------------------------------------------------------------
\* SpecReveal: shuffle_and_deal, then calls of reveal_community_cards on
\* the deck it returned
\* ------------------------------------------------------------------------
\* The calls made on one deck, and the largest phase argument tried: 0, 1
\* and 2 are the flop, the turn and the river, 3 stands for every other u8.
MaxReveals == 3
MaxPhaseArg == 3

\* The deck the next call is given: what the last call returned.
CurrentDeck ==
    IF reveals = <<>> THEN sd.board_deck ELSE reveals[Len(reveals)].deck

RevealCommunityCards ==
    /\ pc = "dealt"
    /\ Len(reveals) < MaxReveals
    /\ \E phase \in 0..MaxPhaseArg :
           LET out == reveal_community_cards(CurrentDeck, phase)
           IN  reveals' = Append(reveals,
                                 [ phase |-> phase,
                                   deck_ctxt |-> CurrentDeck,
                                   deck |-> out.deck,
                                   revealed_cards |-> out.revealed_cards ])
    /\ UNCHANGED <<pc, rng, sd, evalVars, winnerVars, tableVars>>

NextReveal == ShuffleAndDeal \/ RevealCommunityCards

SpecReveal == InitDeal /\ [][NextReveal]_vars

\* ------------------------------------------------------------------------
\* The table program (solana/programs/veridian-holdem): accounts and helpers
\* ------------------------------------------------------------------------
\* Pubkey::default(), the key of an empty seat.
DefaultPubkey == 0

\* "A value of 255 represents an un-dealt card."
UNDEALT == 255

\* The turn timer.  crank_fold.rs imports the constant from crate::state;
\* the handlers only compare it with a difference of two timestamps.
TURN_TIME_SECONDS == 1

BettingPhases == {"PreFlop", "Flop", "Turn", "River"}
HandPhases == {"Dealing", "PreFlop", "Flop", "Turn", "River", "Showdown"}

\* Slot i (0-based, as in the source) of a fixed-size array.
At(array, i) == array[i + 1]
Put(array, i, v) == [array EXCEPT ![i + 1] = v]

\* What an instruction leaves behind: Ok and the accounts as it wrote them,
\* or an error and (the transaction being rolled back) the accounts as they
\* were.  "Panic" is an arithmetic overflow or an index out of bounds.
Ok(g) == [result |-> "Ok", gs |-> g]
Err(code, g) == [result |-> code, gs |-> g]

\* ------------------------------------------------------------------------
\* player_action.rs
\* ------------------------------------------------------------------------
\* Mutant of transition_to_next_hand: the dealer button is not moved.
transition_to_next_hand_same_dealer(g) ==
    [g EXCEPT !.game_phase = "HandOver",
              !.pot = 0,
              !.bets = <<0, 0>>,
              !.community_cards = <<UNDEALT, UNDEALT, UNDEALT, UNDEALT, UNDEALT>>,
              !.is_all_in = <<FALSE, FALSE>>,
              !.current_turn_index = g.dealer_index]

transition_to_next_hand(g) ==
    [g EXCEPT !.game_phase = "HandOver",
              !.pot = 0,
              !.bets = <<0, 0>>,
              !.community_cards = <<UNDEALT, UNDEALT, UNDEALT, UNDEALT, UNDEALT>>,
              !.is_all_in = <<FALSE, FALSE>>,
              !.dealer_index = 1 - g.dealer_index,
              !.current_turn_index = 1 - g.dealer_index]

next_phase(phase) ==
    CASE phase = "PreFlop" -> "Flop"
      [] phase = "Flop" -> "Turn"
      [] phase = "Turn" -> "River"
      [] phase = "River" -> "Showdown"
      [] OTHER -> phase

handle_round_transition(g) ==
    LET collected == [g EXCEPT !.pot = g.pot + At(g.bets, 0) + At(g.bets, 1),
                               !.bets = <<0, 0>>]
    IN  IF At(g.is_all_in, 0) \/ At(g.is_all_in, 1)
        THEN [collected EXCEPT !.game_phase = "Showdown"]
        ELSE [collected EXCEPT !.game_phase = next_phase(g.game_phase),
                               !.current_turn_index = 1 - g.dealer_index]

\* The `match action` of player_action, after the two validations.
process_action(g, action) ==
    LET player_index == g.current_turn_index
        opponent_index == 1 - g.current_turn_index
        player_bet == At(g.bets, player_index)
        player_stack == At(g.stacks, player_index)
        opponent_bet == At(g.bets, opponent_index)
    IN  CASE action.kind = "Fold" ->
               Ok(transition_to_next_hand(
                      [g EXCEPT !.stacks = Put(g.stacks, opponent_index,
                            At(g.stacks, opponent_index)
                                + g.pot + player_bet + opponent_bet)]))
          [] action.kind = "Check" ->
               IF player_bet # opponent_bet THEN Err("InvalidAction", g)
               ELSE IF g.current_turn_index # g.dealer_index
                    THEN Ok(handle_round_transition(g))
                    ELSE Ok([g EXCEPT !.current_turn_index = opponent_index])
          [] action.kind = "Call" ->
               IF opponent_bet < player_bet THEN Err("Panic", g)
               ELSE LET amount_to_call == opponent_bet - player_bet
                    IN  IF ~(amount_to_call > 0) THEN Err("InvalidAction", g)
                        ELSE IF amount_to_call >= player_stack
                        THEN Ok(handle_round_transition(
                                 [g EXCEPT !.bets = Put(g.bets, player_index,
                                                        player_bet + player_stack),
                                           !.stacks = Put(g.stacks, player_index, 0),
                                           !.is_all_in = Put(g.is_all_in, player_index, TRUE)]))
                        ELSE Ok(handle_round_transition(
                                 [g EXCEPT !.stacks = Put(g.stacks, player_index,
                                                          player_stack - amount_to_call),
                                           !.bets = Put(g.bets, player_index,
                                                        player_bet + amount_to_call)]))
          [] action.kind = "Bet" ->
               IF player_bet # opponent_bet THEN Err("InvalidAction", g)
               ELSE IF ~(action.amount > 0) THEN Err("InvalidBetAmount", g)
               ELSE IF ~(action.amount <= player_stack) THEN Err("InsufficientFunds", g)
               ELSE Ok([g EXCEPT
                          !.stacks = Put(g.stacks, player_index, player_stack - action.amount),
                          !.bets = Put(g.bets, player_index, player_bet + action.amount),
                          !.is_all_in = Put(g.is_all_in, player_index,
                                            At(g.is_all_in, player_index)
                                                \/ player_stack - action.amount = 0),
                          !.current_turn_index = opponent_index])
          [] action.kind = "Raise" ->
               IF action.amount < player_bet \/ opponent_bet < player_bet
               THEN Err("Panic", g)
               ELSE LET raise_amount == action.amount - player_bet
                        min_raise == opponent_bet - player_bet
                    IN  IF ~(raise_amount >= min_raise) THEN Err("InvalidBetAmount", g)
                        ELSE IF ~(action.amount > opponent_bet) THEN Err("InvalidBetAmount", g)
                        ELSE IF ~(action.amount <= player_stack + player_bet)
                        THEN Err("InsufficientFunds", g)
                        ELSE Ok([g EXCEPT
                                   !.stacks = Put(g.stacks, player_index,
                                                  player_stack - raise_amount),
                                   !.bets = Put(g.bets, player_index, action.amount),
                                   !.is_all_in = Put(g.is_all_in, player_index,
                                                     At(g.is_all_in, player_index)
                                                         \/ player_stack - raise_amount = 0),
                                   !.current_turn_index = opponent_index])

\* Mutant of player_action: the phase is not validated.
player_action_any_phase(g, signer, action, now) ==
    IF At(g.players, g.current_turn_index) # signer THEN Err("NotPlayerTurn", g)
    ELSE LET done == process_action(g, action)
         IN  IF done.result # "Ok" THEN Err(done.result, g)
             ELSE Ok([done.gs EXCEPT !.last_action_timestamp = now])

\* player_action(ctx, action); signer is ctx.accounts.player, now the clock.
player_action(g, signer, action, now) ==
    IF At(g.players, g.current_turn_index) # signer THEN Err("NotPlayerTurn", g)
    ELSE IF g.game_phase \notin BettingPhases THEN Err("InvalidAction", g)
    ELSE LET done == process_action(g, action)
         IN  IF done.result # "Ok" THEN Err(done.result, g)
             ELSE Ok([done.gs EXCEPT !.last_action_timestamp = now])

\* ------------------------------------------------------------------------
\* crank_fold.rs
\* ------------------------------------------------------------------------
\* Mutant of crank_fold: the timer comparison is not strict.
crank_fold_at_expiry(g, now) ==
    IF g.game_phase \notin BettingPhases THEN Err("InvalidAction", g)
    ELSE IF ~(now >= g.last_action_timestamp + TURN_TIME_SECONDS)
    THEN Err("TimerNotExpired", g)
    ELSE LET opponent_index == 1 - g.current_turn_index
             total_pot == g.pot + At(g.bets, 0) + At(g.bets, 1)
         IN  Ok([g EXCEPT
                   !.stacks = Put(g.stacks, opponent_index,
                                  At(g.stacks, opponent_index) + total_pot),
                   !.game_phase = "HandOver",
                   !.pot = 0,
                   !.bets = <<0, 0>>,
                   !.community_cards = <<UNDEALT, UNDEALT, UNDEALT, UNDEALT, UNDEALT>>,
                   !.is_all_in = <<FALSE, FALSE>>,
                   !.dealer_index = 1 - g.dealer_index,
                   !.current_turn_index = 1 - g.dealer_index,
                   !.last_action_timestamp = now])

\* crank_fold(ctx); the accounts name no signer.
crank_fold(g, now) ==
    IF g.game_phase \notin BettingPhases THEN Err("InvalidAction", g)
    ELSE IF ~(now > g.last_action_timestamp + TURN_TIME_SECONDS)
    THEN Err("TimerNotExpired", g)
    ELSE LET opponent_index == 1 - g.current_turn_index
             total_pot == g.pot + At(g.bets, 0) + At(g.bets, 1)
         IN  Ok([g EXCEPT
                   !.stacks = Put(g.stacks, opponent_index,
                                  At(g.stacks, opponent_index) + total_pot),
                   !.game_phase = "HandOver",
                   !.pot = 0,
                   !.bets = <<0, 0>>,
                   !.community_cards = <<UNDEALT, UNDEALT, UNDEALT, UNDEALT, UNDEALT>>,
                   !.is_all_in = <<FALSE, FALSE>>,
                   !.dealer_index = 1 - g.dealer_index,
                   !.current_turn_index = 1 - g.dealer_index,
                   !.last_action_timestamp = now])

\* ------------------------------------------------------------------------
\* Anchor account constraints and SPL token transfers
\* ------------------------------------------------------------------------
\* An instruction whose accounts cannot be loaded never reaches its handler.
\* GameState is loaded by every instruction; it is gone once leave_table's
\* `close = player_token_account` has closed it.
game_state_loads(g) == ~g.closed

\* The seeds GameState's address is derived from: b"game" and the table id.
game_state_seeds(tc) == <<"game", <<"table_id", tc.table_id>>>>

\* A transfer out of the escrow must be signed for its authority, the
\* GameState address: invoke_signed succeeds only with the seeds that derive
\* that address.
signs_for_game_state(seeds, tc) == seeds = game_state_seeds(tc)

\* token::transfer: fails when the source holds less than the amount.
can_transfer(balance, amount) == amount <= balance

\* ------------------------------------------------------------------------
\* deal_new_hand.rs
\* ------------------------------------------------------------------------
\* The HandState account right after `init`.
fresh_hand_state == [exists |-> TRUE, dealt_community_cards |-> 0]

\* The HandState account after `close`.
closed_hand_state == [exists |-> FALSE, dealt_community_cards |-> 0]

\* Mutant of deal_new_hand_setup: the caller is not compared with the
\* dealer.
deal_new_hand_setup_any_payer(g, hs, payer, now) ==
    IF hs.exists THEN [result |-> "AccountAlreadyInUse", gs |-> g, hand_state |-> hs]
    ELSE IF ~(g.game_phase = "HandOver" \/ g.game_phase = "Idle")
    THEN [result |-> "InvalidAction", gs |-> g, hand_state |-> hs]
    ELSE IF ~(At(g.players, 0) # DefaultPubkey /\ At(g.players, 1) # DefaultPubkey)
    THEN [result |-> "InvalidAction", gs |-> g, hand_state |-> hs]
    ELSE [ result |-> "Ok",
           gs |-> [g EXCEPT
                     !.pot = 0,
                     !.bets = <<0, 0>>,
                     !.community_cards = <<UNDEALT, UNDEALT, UNDEALT, UNDEALT, UNDEALT>>,
                     !.is_all_in = <<FALSE, FALSE>>,
                     !.game_phase = "Dealing",
                     !.last_action_timestamp = now],
           hand_state |-> fresh_hand_state ]

\* deal_new_hand_setup(ctx, computation_offset).  The `init` constraint on
\* hand_state runs before the handler and fails on an account that exists.
deal_new_hand_setup(g, hs, payer, now) ==
    IF hs.exists THEN [result |-> "AccountAlreadyInUse", gs |-> g, hand_state |-> hs]
    ELSE IF ~(g.game_phase = "HandOver" \/ g.game_phase = "Idle")
    THEN [result |-> "InvalidAction", gs |-> g, hand_state |-> hs]
    ELSE IF At(g.players, g.dealer_index) # payer
    THEN [result |-> "Unauthorized", gs |-> g, hand_state |-> hs]
    ELSE IF ~(At(g.players, 0) # DefaultPubkey /\ At(g.players, 1) # DefaultPubkey)
    THEN [result |-> "InvalidAction", gs |-> g, hand_state |-> hs]
    ELSE [ result |-> "Ok",
           gs |-> [g EXCEPT
                     !.pot = 0,
                     !.bets = <<0, 0>>,
                     !.community_cards = <<UNDEALT, UNDEALT, UNDEALT, UNDEALT, UNDEALT>>,
                     !.is_all_in = <<FALSE, FALSE>>,
                     !.game_phase = "Dealing",
                     !.last_action_timestamp = now],
           hand_state |-> fresh_hand_state ]

\* deal_new_hand_queue(ctx, computation_offset): queues shuffle_and_deal;
\* its accounts need a HandState that exists, its handler checks nothing.
deal_new_hand_queue(hs) ==
    IF ~hs.exists THEN "AccountNotInitialized" ELSE "Ok"

\* A computation queued with the network: the circuit and its plaintext
\* argument (the phase of reveal_community_cards, 0 otherwise).
Computation(circuit, phase) == [circuit |-> circuit, phase |-> phase]

\* ------------------------------------------------------------------------
\* request_cards.rs
\* ------------------------------------------------------------------------
\* phase_u8 of request_community_cards; -1 stands for the error branch.
phase_u8(phase) ==
    CASE phase = "Flop" -> 0
      [] phase = "Turn" -> 1
      [] phase = "River" -> 2
      [] OTHER -> -1

request_community_cards(g, hs) ==
    IF ~hs.exists THEN "AccountNotInitialized"
    ELSE IF phase_u8(g.game_phase) = -1 THEN "InvalidAction"
    ELSE "Ok"

\* request_showdown(ctx, computation_offset); dealer_account is the account
\* the caller passes as the dealer.
request_showdown(g, hs, dealer_account) ==
    IF ~hs.exists THEN "AccountNotInitialized"
    ELSE IF g.game_phase # "Showdown" THEN "InvalidAction"
    ELSE IF At(g.players, g.dealer_index) # dealer_account THEN "Unauthorized"
    ELSE "Ok"

\* ------------------------------------------------------------------------
\* reveal_community_cards (encrypted-ixs lib.rs), on the deck of the hand
\* ------------------------------------------------------------------------
\* The 48 cards of the hand's deck: the table runs are dealt from the deck
\* in its initial order.
table_deck_cards == board_deck_cards(fresh_deck)

\* The circuit run on the hand's deck with `dealt` cards already revealed.
reveal_on_table_deck(dealt, phase) ==
    LET out == reveal_community_cards([cards |-> table_deck_cards,
                                       dealt_community_cards |-> dealt], phase)
    IN  [ dealt_community_cards |-> out.deck.dealt_community_cards,
          revealed_cards |-> out.revealed_cards ]

\* ------------------------------------------------------------------------
\* callbacks.rs
\* ------------------------------------------------------------------------
\* Mutant of shuffle_and_deal_callback: the dealer posts the big blind.
shuffle_and_deal_callback_dealer_big_blind(g, hs, tc, output) ==
    LET small_blind_idx == 1 - g.dealer_index
        big_blind_idx == g.dealer_index
        unchanged(code) == [result |-> code, gs |-> g, hand_state |-> hs]
    IN  IF ~hs.exists THEN unchanged("AccountNotInitialized")
        ELSE IF output # "Success" THEN unchanged("InvalidAction")
        ELSE IF At(g.stacks, small_blind_idx) < tc.small_blind THEN unchanged("Panic")
        ELSE IF At(g.stacks, big_blind_idx) < tc.big_blind THEN unchanged("Panic")
        ELSE [ result |-> "Ok",
               gs |-> [g EXCEPT
                         !.stacks = Put(Put(g.stacks, small_blind_idx,
                                            At(g.stacks, small_blind_idx) - tc.small_blind),
                                        big_blind_idx,
                                        At(g.stacks, big_blind_idx) - tc.big_blind),
                         !.bets = Put(Put(g.bets, small_blind_idx, tc.small_blind),
                                      big_blind_idx, tc.big_blind),
                         !.game_phase = "PreFlop",
                         !.current_turn_index = g.dealer_index],
               hand_state |-> [hs EXCEPT !.dealt_community_cards = 0] ]

\* shuffle_and_deal_callback(ctx, output); output is "Success" or "Failure".
shuffle_and_deal_callback(g, hs, tc, output) ==
    LET small_blind_idx == g.dealer_index
        big_blind_idx == 1 - g.dealer_index
        unchanged(code) == [result |-> code, gs |-> g, hand_state |-> hs]
    IN  IF ~hs.exists THEN unchanged("AccountNotInitialized")
        ELSE IF output # "Success" THEN unchanged("InvalidAction")
        ELSE IF At(g.stacks, small_blind_idx) < tc.small_blind THEN unchanged("Panic")
        ELSE IF At(g.stacks, big_blind_idx) < tc.big_blind THEN unchanged("Panic")
        ELSE [ result |-> "Ok",
               gs |-> [g EXCEPT
                         !.stacks = Put(Put(g.stacks, small_blind_idx,
                                            At(g.stacks, small_blind_idx) - tc.small_blind),
                                        big_blind_idx,
                                        At(g.stacks, big_blind_idx) - tc.big_blind),
                         !.bets = Put(Put(g.bets, small_blind_idx, tc.small_blind),
                                      big_blind_idx, tc.big_blind),
                         !.game_phase = "PreFlop",
                         !.current_turn_index = g.dealer_index],
               hand_state |-> [hs EXCEPT !.dealt_community_cards = 0] ]

\* reveal_community_cards_callback(ctx, output); phase is the argument the
\* computation was queued with, the circuit ran on the deck of hand_state.
\* The handler takes revealed_cards[i][0] "assuming the callback gives us
\* plaintext cards".
reveal_community_cards_callback(g, hs, output, phase) ==
    LET computed == reveal_on_table_deck(hs.dealt_community_cards, phase)
        revealed_cards == computed.revealed_cards
        cc == g.community_cards
        community_cards ==
            CASE g.game_phase = "Flop" ->
                   Put(Put(Put(cc, 0, revealed_cards[1]), 1, revealed_cards[2]),
                       2, revealed_cards[3])
              [] g.game_phase = "Turn" -> Put(cc, 3, revealed_cards[1])
              [] g.game_phase = "River" -> Put(cc, 4, revealed_cards[1])
              [] OTHER -> cc
        unchanged(code) == [result |-> code, gs |-> g, hand_state |-> hs]
    IN  IF ~hs.exists THEN unchanged("AccountNotInitialized")
        ELSE IF output # "Success" THEN unchanged("InvalidAction")
        ELSE [ result |-> "Ok",
               gs |-> [g EXCEPT !.community_cards = community_cards,
                                !.current_turn_index = 1 - g.dealer_index],
               hand_state |-> [hs EXCEPT !.dealt_community_cards =
                                             computed.dealt_community_cards] ]

\* Mutant of rake_of: the rake is taken whether or not a flop was dealt.
rake_of_every_pot(g, cfg) ==
    LET total_pot == g.pot + At(g.bets, 0) + At(g.bets, 1)
        percent == (total_pot * cfg.rake_percentage) \div 100
    IN  IF percent > cfg.rake_cap THEN cfg.rake_cap ELSE percent

\* The rake calculation of determine_winner_callback ("No Flop, No Drop").
rake_of(g, cfg) ==
    LET total_pot == g.pot + At(g.bets, 0) + At(g.bets, 1)
        percent == (total_pot * cfg.rake_percentage) \div 100
    IN  IF At(g.community_cards, 0) # UNDEALT
        THEN IF percent > cfg.rake_cap THEN cfg.rake_cap ELSE percent
        ELSE 0

\* Mutant of distribute_pot: the odd chip of a split goes to the dealer.
distribute_pot_odd_chip_to_dealer(g, index, pot_after_rake) ==
    IF index = 2
    THEN LET split_amount == pot_after_rake \div 2
             halves == <<At(g.stacks, 0) + split_amount, At(g.stacks, 1) + split_amount>>
         IN  IF pot_after_rake % 2 = 1
             THEN Put(halves, g.dealer_index, At(halves, g.dealer_index) + 1)
             ELSE halves
    ELSE Put(g.stacks, index, At(g.stacks, index) + pot_after_rake)

\* "Distribute pot": the stacks after the payout.
distribute_pot(g, index, pot_after_rake) ==
    IF index = 2
    THEN LET split_amount == pot_after_rake \div 2
             halves == <<At(g.stacks, 0) + split_amount, At(g.stacks, 1) + split_amount>>
             odd_chip_recipient == 1 - g.dealer_index
         IN  IF pot_after_rake % 2 = 1
             THEN Put(halves, odd_chip_recipient, At(halves, odd_chip_recipient) + 1)
             ELSE halves
    ELSE Put(g.stacks, index, At(g.stacks, index) + pot_after_rake)

\* determine_winner_callback(ctx, output); index is the value the
\* computation revealed.  On success `close = dealer_account` closes
\* hand_state.
determine_winner_callback(g, hs, cfg, tc, tk, output, index) ==
    LET total_pot == g.pot + At(g.bets, 0) + At(g.bets, 1)
        rake == rake_of(g, cfg)
        seeds == <<"game", <<"table_id", g.table_id>>>>
        unchanged(code) == [result |-> code, gs |-> g, hand_state |-> hs, tokens |-> tk]
    IN  IF ~hs.exists THEN unchanged("AccountNotInitialized")
        ELSE IF output # "Success" THEN unchanged("InvalidAction")
        ELSE IF rake > total_pot THEN unchanged("Panic")
        ELSE IF rake > 0 /\ ~signs_for_game_state(seeds, tc)
        THEN unchanged("MissingRequiredSignature")
        ELSE IF rake > 0 /\ ~can_transfer(tk.escrow, rake)
        THEN unchanged("TokenInsufficientFunds")
        ELSE IF index \notin {0, 1, 2} THEN unchanged("Panic")
        ELSE [ result |-> "Ok",
               gs |-> [g EXCEPT
                         !.stacks = distribute_pot(g, index, total_pot - rake),
                         !.game_phase = "HandOver",
                         !.pot = 0,
                         !.bets = <<0, 0>>,
                         !.community_cards = <<UNDEALT, UNDEALT, UNDEALT, UNDEALT, UNDEALT>>,
                         !.is_all_in = <<FALSE, FALSE>>,
                         !.dealer_index = 1 - g.dealer_index,
                         !.current_turn_index = 1 - g.dealer_index],
               hand_state |-> closed_hand_state,
               tokens |-> [tk EXCEPT !.escrow = tk.escrow - rake,
                                     !.treasury = tk.treasury + rake] ]

\* ------------------------------------------------------------------------
\* join_table.rs and leave_table.rs
\* ------------------------------------------------------------------------
join_table(g, tc, tk, joiner) ==
    LET unchanged(code) == [result |-> code, gs |-> g, tokens |-> tk]
    IN  IF g.is_active THEN unchanged("GameAlreadyInProgress")
        ELSE IF At(g.players, 1) # DefaultPubkey THEN unchanged("TableFull")
        ELSE IF joiner = At(g.players, 0) THEN unchanged("InvalidAction")
        ELSE IF ~can_transfer(tk.wallet[joiner], tc.buy_in)
        THEN unchanged("TokenInsufficientFunds")
        ELSE [ result |-> "Ok",
               gs |-> [g EXCEPT !.players = Put(g.players, 1, joiner),
                                !.stacks = Put(g.stacks, 1, tc.buy_in),
                                !.is_active = TRUE,
                                !.game_phase = "HandOver"],
               tokens |-> [tk EXCEPT !.wallet[joiner] = tk.wallet[joiner] - tc.buy_in,
                                     !.escrow = tk.escrow + tc.buy_in] ]

\* leave_table(ctx).  The transfer is signed with the seeds b"game" and the
\* key of the TableConfig account; on success `close = player_token_account`
\* closes game_state.
leave_table(g, tc, tk, player) ==
    LET unchanged(code) == [result |-> code, gs |-> g, tokens |-> tk]
        seated == {i \in {0, 1} : At(g.players, i) = player}
        player_index == CHOOSE i \in seated : \A j \in seated : i <= j
        amount_to_withdraw == At(g.stacks, player_index)
        seeds == <<"game", <<"pubkey", g.table_config>>>>
    IN  IF ~(g.game_phase = "Idle" \/ g.game_phase = "HandOver")
        THEN unchanged("HandNotOver")
        ELSE IF seated = {} THEN unchanged("PlayerNotInGame")
        ELSE IF amount_to_withdraw > 0 /\ ~signs_for_game_state(seeds, tc)
        THEN unchanged("MissingRequiredSignature")
        ELSE IF amount_to_withdraw > 0 /\ ~can_transfer(tk.escrow, amount_to_withdraw)
        THEN unchanged("TokenInsufficientFunds")
        ELSE [ result |-> "Ok",
               gs |-> [g EXCEPT !.players = Put(g.players, player_index, DefaultPubkey),
                                !.stacks = Put(g.stacks, player_index, 0),
                                !.is_active = FALSE,
                                !.game_phase = "Idle",
                                !.closed = TRUE],
               tokens |-> [tk EXCEPT
                             !.escrow = tk.escrow - amount_to_withdraw,
                             !.wallet[player] = tk.wallet[player] + amount_to_withdraw] ]

\* ------------------------------------------------------------------------
\* SpecTable: one heads-up table, from create_table on
\* ------------------------------------------------------------------------
\* The tables create_table may have made: blinds of 1 and 2 chips and a
\* buy-in of 3.
TableConfigs == { [table_id |-> 1, small_blind |-> 1, big_blind |-> 2, buy_in |-> 3] }

\* The deck positions the requests of a hand may reveal; a request that
\* would reveal a position past them is left out of the model.
MaxDealtCards == 5

\* The computations that may be outstanding at a time.
MaxPending == 1

\* The keys that sign transactions: 1 created the table, 2 did not.
Signers == 1..2

\* The rake configurations initialize_config / set_rake_config may have
\* stored: a percentage and a cap.
RakeConfigs == { [rake_percentage |-> 34, rake_cap |-> 1] }

NoArg == [kind |-> "none", amount |-> 0]

Actions ==
    { [kind |-> k, amount |-> 0] : k \in {"Fold", "Check", "Call"} }
        \cup { [kind |-> k, amount |-> a] : k \in {"Bet", "Raise"}, a \in 0..table_config.buy_in }

\* What the computation network hands to a callback.
CallbackOutputs(circuit) ==
    IF circuit = "determine_winner"
    THEN { [kind |-> "Success", amount |-> w] : w \in 0..2 }
             \cup { [kind |-> "Failure", amount |-> 0] }
    ELSE { [kind |-> o, amount |-> 0] : o \in {"Success", "Failure"} }

\* The handlers read the clock only to store it in last_action_timestamp and
\* to compare it with last_action_timestamp + TURN_TIME_SECONDS, so the
\* state keeps the time elapsed since last_action_timestamp, saturated one
\* past the timer, and last_action_timestamp at 0.
Elapsed(g, now) ==
    IF now - g.last_action_timestamp > TURN_TIME_SECONDS
    THEN TURN_TIME_SECONDS + 1
    ELSE now - g.last_action_timestamp

Rebased(g) == [g EXCEPT !.last_action_timestamp = 0]

\* The accounts and the time a transaction found.
Snapshot ==
    [gs |-> gs, hand_state |-> hand_state, tokens |-> tokens, clock |-> clock,
     pending |-> pending]

\* The state records a transaction that was rolled back and changed nothing.
RolledBack == ix.result # "Ok" /\ Snapshot = ix.before

\* One transaction: the instruction's name and inputs, its result, and the
\* accounts it leaves; ix.before holds what it found.  A rejected
\* transaction is rolled back and the ledger goes on from the accounts as
\* they were: the record of a rejection is kept as a state, and the
\* transactions that follow it are those that follow the state before it.
Transaction(name, signer, arg, result, g, hs, tk, queue) ==
    /\ ~RolledBack
    /\ game_state_loads(gs)
    /\ gs' = Rebased(g)
    /\ clock' = Elapsed(g, clock)
    /\ hand_state' = hs
    /\ tokens' = tk
    /\ pending' = queue
    /\ ix' = [name |-> name, signer |-> signer, arg |-> arg, result |-> result,
              before |-> Snapshot]
    /\ UNCHANGED <<pc, evalVars, winnerVars, dealVars, config, table_config>>

\* create_table(table_id, small_blind, big_blind, buy_in) by key 1, some
\* time ago, with one of these table configurations.
TableCreated(configs) ==
    /\ pc = "table"
    /\ EvalIdle /\ WinnerIdle /\ DealIdle
    /\ config \in RakeConfigs
    /\ table_config \in configs
    /\ gs = [ closed |-> FALSE,
              table_id |-> table_config.table_id,
              table_config |-> 100,
              players |-> <<1, DefaultPubkey>>,
              stacks |-> <<table_config.buy_in, 0>>,
              game_phase |-> "Idle",
              pot |-> 0,
              bets |-> <<0, 0>>,
              community_cards |-> <<UNDEALT, UNDEALT, UNDEALT, UNDEALT, UNDEALT>>,
              is_all_in |-> <<FALSE, FALSE>>,
              current_turn_index |-> 0,
              dealer_index |-> 0,
              last_action_timestamp |-> 0,
              is_active |-> FALSE ]
    /\ hand_state = closed_hand_state
    /\ tokens = [escrow |-> table_config.buy_in, treasury |-> 0,
                 wallet |-> <<0, table_config.buy_in>>]
    /\ clock = TURN_TIME_SECONDS + 1
    /\ pending = {}
    /\ ix = [name |-> "create_table", signer |-> 1, arg |-> NoArg, result |-> "Ok",
             before |-> Snapshot]

InitTable == TableCreated(TableConfigs)

JoinTable ==
    \E joiner \in Signers :
        LET r == join_table(gs, table_config, tokens, joiner)
        IN  Transaction("join_table", joiner, NoArg, r.result, r.gs, hand_state,
                        r.tokens, pending)

LeaveTable ==
    \E player \in Signers :
        LET r == leave_table(gs, table_config, tokens, player)
        IN  Transaction("leave_table", player, NoArg, r.result, r.gs, hand_state,
                        r.tokens, pending)

DealNewHandSetup ==
    \E payer \in Signers :
        LET r == deal_new_hand_setup(gs, hand_state, payer, clock)
        IN  Transaction("deal_new_hand_setup", payer, NoArg, r.result, r.gs,
                        r.hand_state, tokens, pending)

\* deal_new_hand_queue while fewer than `limit` computations are outstanding.
DealNewHandQueueWithin(limit) ==
    /\ Cardinality(pending) < limit
    /\ LET result == deal_new_hand_queue(hand_state)
       IN  Transaction("deal_new_hand_queue", 0, NoArg, result, gs, hand_state, tokens,
                       IF result = "Ok"
                       THEN pending \cup {Computation("shuffle_and_deal", 0)}
                       ELSE pending)

DealNewHandQueue == DealNewHandQueueWithin(MaxPending)

ShuffleAndDealCallback ==
    \E c \in pending, output \in CallbackOutputs("shuffle_and_deal") :
        /\ c.circuit = "shuffle_and_deal"
        /\ LET r == shuffle_and_deal_callback(gs, hand_state, table_config, output.kind)
           IN  Transaction("shuffle_and_deal_callback", 0, output, r.result, r.gs,
                           r.hand_state, tokens, pending \ {c})

PlayerAction ==
    \E signer \in Signers, action \in Actions :
        LET r == player_action(gs, signer, action, clock)
        IN  Transaction("player_action", signer, action, r.result, r.gs, hand_state,
                        tokens, pending)

CrankFold ==
    LET r == crank_fold(gs, clock)
    IN  Transaction("crank_fold", 0, NoArg, r.result, r.gs, hand_state, tokens, pending)

RequestCommunityCards ==
    /\ Cardinality(pending) < MaxPending
    /\ hand_state.dealt_community_cards
           + (IF gs.game_phase = "Flop" THEN 3 ELSE 1) <= MaxDealtCards
    /\ LET result == request_community_cards(gs, hand_state)
       IN  Transaction("request_community_cards", 0, NoArg, result, gs, hand_state,
                       tokens,
                       IF result = "Ok"
                       THEN pending \cup {Computation("reveal_community_cards",
                                                      phase_u8(gs.game_phase))}
                       ELSE pending)

RevealCommunityCardsCallback ==
    \E c \in pending, output \in CallbackOutputs("reveal_community_cards") :
        /\ c.circuit = "reveal_community_cards"
        /\ LET r == reveal_community_cards_callback(gs, hand_state, output.kind, c.phase)
           IN  Transaction("reveal_community_cards_callback", 0, output, r.result,
                           r.gs, r.hand_state, tokens, pending \ {c})

\* request_showdown while fewer than `limit` computations are outstanding.
RequestShowdownWithin(limit) ==
    /\ Cardinality(pending) < limit
    /\ \E dealer_account \in Signers :
           LET result == request_showdown(gs, hand_state, dealer_account)
           IN  Transaction("request_showdown", dealer_account, NoArg, result, gs,
                           hand_state, tokens,
                           IF result = "Ok"
                           THEN pending \cup {Computation("determine_winner", 0)}
                           ELSE pending)

RequestShowdown == RequestShowdownWithin(MaxPending)

DetermineWinnerCallback ==
    \E c \in pending, output \in CallbackOutputs("determine_winner") :
        /\ c.circuit = "determine_winner"
        /\ LET r == determine_winner_callback(gs, hand_state, config, table_config,
                                              tokens, output.kind, output.amount)
           IN  Transaction("determine_winner_callback", 0, output, r.result, r.gs,
                           r.hand_state, r.tokens, pending \ {c})

\* A second passes.
Tick ==
    /\ ~RolledBack
    /\ game_state_loads(gs)
    /\ clock <= TURN_TIME_SECONDS
    /\ clock' = clock + 1
    /\ ix' = [name |-> "tick", signer |-> 0, arg |-> NoArg, result |-> "Ok",
              before |-> Snapshot]
    /\ UNCHANGED <<pc, evalVars, winnerVars, dealVars, gs, hand_state, config,
                   table_config, tokens, pending>>

NextTable ==
    \/ JoinTable
    \/ LeaveTable
    \/ DealNewHandSetup
    \/ DealNewHandQueue
    \/ ShuffleAndDealCallback
    \/ PlayerAction
    \/ CrankFold
    \/ RequestCommunityCards
    \/ RevealCommunityCardsCallback
    \/ RequestShowdown
    \/ DetermineWinnerCallback
    \/ Tick

SpecTable == InitTable /\ [][NextTable]_vars

\* A table with a buy-in of five chips, where a raise can be answered by a
\* raise: the first hand up to the end of its betting.
DeepTableConfigs == { [table_id |-> 1, small_blind |-> 1, big_blind |-> 2, buy_in |-> 5] }

InitDeepTable == TableCreated(DeepTableConfigs)

\* The instructions of the hand's start and of its betting.
NextDeepTable ==
    \/ JoinTable
    \/ DealNewHandSetup
    \/ DealNewHandQueue
    \/ ShuffleAndDealCallback
    \/ PlayerAction

SpecDeepTable == InitDeepTable /\ [][NextDeepTable]_vars

\* A hand that is dealt, bet and settled while up to MaxOverlap computations
\* are outstanding at a time: a shuffle_and_deal queued during the hand may
\* be called back after determine_winner_callback has settled it.
MaxOverlap == 2

NextOverlap ==
    \/ JoinTable
    \/ DealNewHandSetup
    \/ DealNewHandQueueWithin(MaxOverlap)
    \/ ShuffleAndDealCallback
    \/ PlayerAction
    \/ RequestShowdownWithin(MaxOverlap)
    \/ DetermineWinnerCallback

SpecOverlap == InitTable /\ [][NextOverlap]_vars

\* ------------------------------------------------------------------------
\* SpecTableFair: the table under the scheduling the program counts on
\* ------------------------------------------------------------------------
\* The transaction changes the ledger, the queue of computations or the
\* time; a transaction that is rolled back and leaves all of them alone is a
\* stuttering step of this specification.
Effective == Snapshot' # Snapshot

\* The network hands a callback the result of a computation that ran.
Delivered(callback) == callback /\ ix'.arg.kind = "Success"

NextTableFair ==
    \/ JoinTable /\ Effective
    \/ LeaveTable /\ Effective
    \/ DealNewHandSetup /\ Effective
    \/ DealNewHandQueue /\ Effective
    \/ ShuffleAndDealCallback /\ Effective
    \/ PlayerAction /\ Effective
    \/ CrankFold /\ Effective
    \/ RequestCommunityCards /\ Effective
    \/ RevealCommunityCardsCallback /\ Effective
    \/ RequestShowdown /\ Effective
    \/ DetermineWinnerCallback /\ Effective
    \/ Tick

\* Time passes; somebody sends crank_fold once a turn timer has run out;
\* the dealer queues the shuffle of a hand that was set up and somebody
\* requests the showdown; the network runs every computation queued and
\* delivers its result.  Nothing is assumed of the players' own actions.
\* The requests are strongly fair: a request that another outstanding
\* computation holds up (MaxPending) is sent once that one is delivered.
FairScheduling ==
    /\ WF_vars(Tick)
    /\ WF_vars(CrankFold /\ Effective)
    /\ SF_vars(DealNewHandQueue /\ gs.game_phase = "Dealing" /\ Effective)
    /\ SF_vars(RequestShowdown /\ Effective)
    /\ SF_vars(Delivered(ShuffleAndDealCallback))
    /\ SF_vars(Delivered(RevealCommunityCardsCallback))
    /\ SF_vars(Delivered(DetermineWinnerCallback))

SpecTableFair == InitTable /\ [][NextTableFair]_vars /\ FairScheduling

\* ------------------------------------------------------------------------
\* Standard poker rules, stated on the cards of a hand
\* ------------------------------------------------------------------------
StdRank(card) == card \div 4
StdSuit(card) == card % 4
StdRankSet(h) == {StdRank(h[i]) : i \in 1..5}
StdCount(h, r) == Cardinality({i \in 1..5 : StdRank(h[i]) = r})
StdRanksWithCount(h, n) == {r \in StdRankSet(h) : StdCount(h, r) = n}
StdFlush(h) == Cardinality({StdSuit(h[i]) : i \in 1..5}) = 1

IsWheelHand(h) == StdRankSet(h) = {12, 0, 1, 2, 3}
IsSixHighHand(h) == StdRankSet(h) = {0, 1, 2, 3, 4}

\* The elements of a set of numbers, highest first / lowest first.
Descending(S) == [k \in 1..Cardinality(S) |-> KthOf(S, Cardinality(S) + 1 - k)]
Ascending(S) == [k \in 1..Cardinality(S) |-> KthOf(S, k)]

\* The strength of a hand: its category, followed by what decides between
\* two hands of that category: for a straight the rank it is named by (the
\* wheel is five-high), otherwise the quads, the trips, the pairs high to
\* low, the single cards high to low.
StdStrength(h) ==
    LET ranks == StdRankSet(h)
        high == CHOOSE r \in ranks : \A q \in ranks : q <= r
        wheel == ranks = {12, 0, 1, 2, 3}
        straight == wheel \/ (Cardinality(ranks) = 5 /\ ranks = (high - 4)..high)
        flush == StdFlush(h)
        quads == StdRanksWithCount(h, 4)
        trips == StdRanksWithCount(h, 3)
        pairs == StdRanksWithCount(h, 2)
        singles == StdRanksWithCount(h, 1)
        category ==
            IF straight /\ flush THEN 8
            ELSE IF quads # {} THEN 7
            ELSE IF trips # {} /\ pairs # {} THEN 6
            ELSE IF flush THEN 5
            ELSE IF straight THEN 4
            ELSE IF trips # {} THEN 3
            ELSE IF Cardinality(pairs) = 2 THEN 2
            ELSE IF Cardinality(pairs) = 1 THEN 1
            ELSE 0
    IN  IF straight
        THEN <<category, IF wheel THEN 3 ELSE high>>
        ELSE <<category>> \o Descending(quads) \o Descending(trips)
             \o Descending(pairs) \o Descending(singles)

StdCategory(h) == StdStrength(h)[1]

\* s comes before t in the order of hand strengths, strongest first.
Stronger(s, t) ==
    \E i \in 1..Len(s) :
        /\ i <= Len(t)
        /\ s[i] > t[i]
        /\ \A j \in 1..(i - 1) : s[j] = t[j]

\* k lists the five ranks of h, ordered by how often the rank occurs in h
\* (descending) and then by rank (descending).
CountThenRankOrdered(h, k) ==
    /\ Len(k) = 5
    /\ \A r \in 0..15 : Cardinality({i \in 1..5 : k[i] = r}) = StdCount(h, r)
    /\ \A i \in 1..4 :
           \/ StdCount(h, k[i]) > StdCount(h, k[i + 1])
           \/ StdCount(h, k[i]) = StdCount(h, k[i + 1]) /\ k[i] >= k[i + 1]

\* ------------------------------------------------------------------------
\* Claims about evaluate_hand (SpecEval).  Every hand of the input set is
\* hand A of some run, so a claim about single hands is stated on the state
\* right after hand A was evaluated; a claim about pairs of hands on the
\* state after both were, and for both orders of the pair.
\* ------------------------------------------------------------------------
\* C1: for every pair of valid hands A, B, score(A) > score(B) exactly when A
\* beats B under standard rules, and the scores are equal exactly when the
\* hands tie (same category, same kickers in order); for the evaluator of
\* lib.rs and for the one of hand_eval.rs.
C1_TotalOrder ==
    pc = "done" =>
        LET a == StdStrength(handA)
            b == StdStrength(handB)
        IN  /\ (evA.score > evB.score) <=> Stronger(a, b)
            /\ (evB.score > evA.score) <=> Stronger(b, a)
            /\ (evA.score = evB.score) <=> (a = b)
            /\ (heA.score > heB.score) <=> Stronger(a, b)
            /\ (heB.score > heA.score) <=> Stronger(b, a)
            /\ (heA.score = heB.score) <=> (a = b)

\* Two hands of one category (one pair), decided by the kickers alone.
C1_Witness ==
    /\ pc = "done"
    /\ StdCategory(handA) = 1
    /\ StdCategory(handB) = 1
    /\ Stronger(StdStrength(handB), StdStrength(handA))
    /\ evB.score > evA.score

\* C4: a hand of a higher category scores above every hand of a lower
\* category, whatever the kickers.
C4_CategoryMonotonic ==
    pc = "done" =>
        LET a == StdCategory(handA)
            b == StdCategory(handB)
        IN  /\ a > b => evA.score > evB.score /\ heA.score > heB.score
            /\ b > a => evB.score > evA.score /\ heB.score > heA.score

\* A lower category with the higher first kicker: one pair of Twos against
\* an Ace-high hand without a pair.
C4_Witness ==
    /\ pc = "done"
    /\ \E x \in {<<handA, evA, handB, evB>>, <<handB, evB, handA, evA>>} :
           /\ StdCategory(x[1]) = 1
           /\ StdCategory(x[3]) = 0
           /\ x[2].ordered_kickers[1] = 0
           /\ x[4].ordered_kickers[1] = 12
           /\ x[2].score > x[4].score

\* C5: a hand of ranks {A,5,4,3,2} is a straight (4) with mixed suits and a
\* straight flush (8) with one suit, its kickers are [5,4,3,2,A], and it
\* scores strictly below the six-high straight (straight flush) 6,5,4,3,2.
C5_Wheel ==
    /\ (pc = "evaluatedA" /\ IsWheelHand(handA)) =>
           /\ evA.hand_rank = (IF StdFlush(handA) THEN 8 ELSE 4)
           /\ evA.ordered_kickers = <<3, 2, 1, 0, 12>>
           /\ heA.hand_rank = (IF StdFlush(handA) THEN 8 ELSE 4)
           /\ heA.ordered_kickers = <<3, 2, 1, 0, 12>>
    /\ pc = "done" =>
           \A x \in {<<handA, evA, heA, handB, evB, heB>>,
                     <<handB, evB, heB, handA, evA, heA>>} :
               ( /\ IsWheelHand(x[1])
                 /\ IsSixHighHand(x[4])
                 /\ StdFlush(x[1]) <=> StdFlush(x[4]) )
                   => x[2].score < x[5].score /\ x[3].score < x[6].score

\* The wheel straight flush evaluated next to the six-high straight flush.
C5_Witness ==
    /\ pc = "done"
    /\ StdFlush(handA)
    /\ StdFlush(handB)
    /\ \/ /\ IsWheelHand(handA)
          /\ IsSixHighHand(handB)
          /\ evA.hand_rank = 8
          /\ evA.score < evB.score
       \/ /\ IsWheelHand(handB)
          /\ IsSixHighHand(handA)
          /\ evB.hand_rank = 8
          /\ evB.score < evA.score

\* C6: for every hand that is not the wheel, the five kickers are the hand's
\* ranks ordered by occurrence count (descending), then by rank (descending).
C6_KickerOrder ==
    (pc = "evaluatedA" /\ ~IsWheelHand(handA)) =>
        /\ CountThenRankOrdered(handA, evA.ordered_kickers)
        /\ CountThenRankOrdered(handA, heA.ordered_kickers)

\* A full house Twos over Threes: the trips come first although the pair is
\* of the higher rank.
C6_Witness ==
    /\ pc = "evaluatedA"
    /\ StdCategory(handA) = 6
    /\ evA.ordered_kickers = <<0, 0, 0, 1, 1>>

\* C7: exactly one of the nine terms of the hand_rank sum is active, the one
\* of the highest category the hand matches, so the sum is that category.
C7_ExclusiveCategory ==
    pc = "evaluatedA" =>
        /\ Cardinality({k \in 1..9 : evA.terms[k]}) = 1
        /\ \A k \in 1..9 : evA.terms[k] <=> (TermRank[k] = StdCategory(handA))
        /\ evA.hand_rank = StdCategory(handA)
        /\ heA.terms = evA.terms
        /\ heA.hand_rank = evA.hand_rank

\* A hand that is a straight and a flush: only the straight-flush term.
C7_Witness ==
    /\ pc = "evaluatedA"
    /\ StdCategory(handA) = 8
    /\ evA.terms[1]
    /\ ~evA.terms[4]
    /\ ~evA.terms[5]
    /\ evA.hand_rank = 8

\* C8: the sequence of operations is the same for every valid input: for any
\* two hands, each iteration of the kicker expansion executes the same number
\* of array writes, in lib.rs and in hand_eval.rs.
C8_DataIndependentTrace ==
    pc = "done" =>
        /\ evA.trace = evB.trace
        /\ heA.trace = heB.trace

\* C10: score = category * 2^20 + k1 * 2^16 + k2 * 2^12 + k3 * 2^8 + k4 * 2^4
\* + k5 with category in 0..8 and kickers in 0..12, every field readable back
\* from its nibble, score < 2^24, and the sum of lib.rs equal to the shift/or
\* of hand_eval.rs.
C10_ScoreLayout ==
    pc = "evaluatedA" =>
        LET k == evA.ordered_kickers
            score == evA.score
        IN  /\ evA.hand_rank \in 0..8
            /\ \A i \in 1..5 : k[i] \in 0..12
            /\ score = evA.hand_rank * (2 ^ 20) + k[1] * (2 ^ 16)
                       + k[2] * (2 ^ 12) + k[3] * (2 ^ 8) + k[4] * (2 ^ 4) + k[5]
            /\ score < 2 ^ 24
            /\ score \div (2 ^ 20) = evA.hand_rank
            /\ \A i \in 1..5 : (score \div (2 ^ (4 * (5 - i)))) % 16 = k[i]
            /\ heA.ordered_kickers = k
            /\ heA.score = score

\* The highest category with the highest rank in the lowest nibble.
C10_Witness ==
    /\ pc = "evaluatedA"
    /\ evA.hand_rank = 8
    /\ evA.ordered_kickers[5] = 12
    /\ evA.score = 8 * 1048576 + 3 * 65536 + 2 * 4096 + 1 * 256 + 0 * 16 + 12
    /\ heA.score = evA.score

\* ------------------------------------------------------------------------
\* Claims about straight detection (SpecStraight)
\* ------------------------------------------------------------------------
\* The five ranks are pairwise distinct and the highest is four above the
\* lowest.
FiveConsecutiveRanks(h) ==
    /\ Cardinality(StdRankSet(h)) = 5
    /\ \E lo \in 0..8 : StdRankSet(h) = lo..(lo + 4)

\* C11: is_straight is true exactly when the five ranks are pairwise
\* distinct and consecutive, or are exactly the wheel A,5,4,3,2; so
\* A,K,Q,J,10 is a straight and the wrap-around K,A,2,3,4 is not.
C11_StraightDetection ==
    pc = "evaluatedA" =>
        /\ evA.is_straight <=> (FiveConsecutiveRanks(handA) \/ IsWheelHand(handA))
        /\ heA.is_straight = evA.is_straight
        /\ StdRankSet(handA) = {12, 11, 10, 9, 8} => evA.is_straight
        /\ StdRankSet(handA) = {11, 12, 0, 1, 2} => ~evA.is_straight

\* The wrap-around K,A,2,3,4 was evaluated and is no straight.
C11_Witness ==
    /\ pc = "evaluatedA"
    /\ StdRankSet(handA) = {11, 12, 0, 1, 2}
    /\ ~evA.is_straight
    /\ evA.hand_rank = HIGH_CARD_RANK

\* ------------------------------------------------------------------------
\* Claims about shuffle_and_deal (SpecDeal)
\* ------------------------------------------------------------------------
\* C12: the two hole-card pairs and the 48 cards of the board deck are
\* pairwise disjoint and together hold every card 0..51 exactly once, and
\* the deck is returned with dealt_community_cards = 0.
C12_DealPartition ==
    pc = "dealt" =>
        LET all == sd.p1_cards \o sd.p2_cards \o sd.board_deck.cards
        IN  /\ Len(sd.p1_cards) = 2
            /\ Len(sd.p2_cards) = 2
            /\ Len(sd.board_deck.cards) = 48
            /\ CardsOf(sd.p1_cards) \cap CardsOf(sd.p2_cards) = {}
            /\ CardsOf(sd.p1_cards) \cap CardsOf(sd.board_deck.cards) = {}
            /\ CardsOf(sd.p2_cards) \cap CardsOf(sd.board_deck.cards) = {}
            /\ \A c \in 0..51 : Cardinality({i \in 1..52 : all[i] = c}) = 1
            /\ sd.board_deck.dealt_community_cards = 0

\* A deal from a deck that the generator did rearrange.
C12_Witness ==
    /\ pc = "dealt"
    /\ rng.rot = 7
    /\ rng.swap = <<2, 5>>
    /\ sd.p1_cards = <<7, 11>>
    /\ sd.p2_cards = <<9, 10>>
    /\ sd.board_deck.cards[1] = 8
    /\ sd.board_deck.cards[48] = 6

\* ------------------------------------------------------------------------
\* Claims about determine_winner (SpecWinner)
\* ------------------------------------------------------------------------
\* The best score by brute force: the highest evaluate_hand score over every
\* set of five of the seven cards.
BruteForceBest(seven_cards) ==
    LET scores == { evaluate_hand(Ascending(S)).score :
                        S \in {T \in SUBSET CardsOf(seven_cards) : Cardinality(T) = 5} }
    IN  CHOOSE m \in scores : \A x \in scores : x <= m

\* The scenario of the specification: P1 As Ks, P2 2c 2d, board Qs Js Ts 9h 3d.
IsExampleDeal ==
    /\ p1_cards = <<48, 44>>
    /\ p2_cards = <<3, 2>>
    /\ board = <<40, 36, 32, 29, 6>>

\* C2: the result is 0 exactly when player 1's best score is strictly the
\* greater, 1 exactly when player 2's is, 2 exactly when they are equal;
\* exactly one of the three multiplexer terms is active; the example gives 0.
C2_WinnerTernary ==
    pc = "revealed" =>
        /\ dw.winner_index \in {0, 1, 2}
        /\ (dw.winner_index = 0) <=> (dw.p1_score > dw.p2_score)
        /\ (dw.winner_index = 1) <=> (dw.p2_score > dw.p1_score)
        /\ (dw.winner_index = 2) <=> (dw.p1_score = dw.p2_score)
        /\ B2I(dw.p1_wins) + B2I(dw.p2_wins) + B2I(~dw.p1_wins /\ ~dw.p2_wins) = 1
        /\ IsExampleDeal => dw.winner_index = 0

C2_Witness ==
    /\ pc = "revealed"
    /\ IsExampleDeal
    /\ dw.p1_score \div 1048576 = 8
    /\ dw.p2_score \div 1048576 = 1
    /\ dw.winner_index = 0

\* C3: find_best_hand_from_seven returns the maximum of evaluate_hand over
\* all 21 five-card subsets of the seven cards, and evaluates 21 hands.
C3_BestOfSeven ==
    pc = "revealed" =>
        /\ dw.p1_score = BruteForceBest(seven_cards_of(p1_cards, board))
        /\ dw.p2_score = BruteForceBest(seven_cards_of(p2_cards, board))
        /\ dw.p1_evaluations = 21
        /\ dw.p2_evaluations = 21

\* The best hand is not the first combination evaluated: the running maximum
\* was replaced on the way.
C3_Witness ==
    /\ pc = "revealed"
    /\ dw.p1_score
         > evaluate_hand(current_hand(seven_cards_of(p1_cards, board),
                                      COMBINATIONS[1])).score
    /\ dw.p1_score = BruteForceBest(seven_cards_of(p1_cards, board))

\* C9: the only value released is the ternary result, so two runs with the
\* same result release the same output: the released values are exactly the
\* one-element list holding winner_index, and nothing is released before.
C9_OnlyResultRevealed ==
    /\ pc = "dealt" => revealed = <<>>
    /\ pc = "revealed" =>
           /\ dw.winner_index \in {0, 1, 2}
           /\ revealed = <<dw.winner_index>>

\* Two different score pairs behind one released value: a run whose result
\* is 0 although the winner's hand is not the example's straight flush.
C9_Witness ==
    /\ pc = "revealed"
    /\ revealed = <<0>>
    /\ dw.p1_score \div 1048576 < 8
    /\ dw.p2_score \div 1048576 > 1

\* ------------------------------------------------------------------------
\* Claims checked under SpecTable (the table program)
\* ------------------------------------------------------------------------
\* The transaction the state records was this instruction and succeeded.
Succeeded(name) == ix.name = name /\ ix.result = "Ok"

\* The transaction the state records was this instruction, rejected with
\* this error.
Rejected(name, code) == ix.name = name /\ ix.result = code

\* What the treasury received in the transaction the state records.
RakeTaken == tokens.treasury - ix.before.tokens.treasury

TotalPot(g) == g.pot + At(g.bets, 0) + At(g.bets, 1)

\* C13: a determine_winner_callback that succeeds with result 0 or 1 adds
\* the pot plus both bets minus the rake to that player's stack and leaves
\* the other stack alone; with result 2 it adds half of the after-rake pot
\* to each stack and the odd chip to the player out of position (index
\* 1 - dealer_index); in every case the two stacks together grow by exactly
\* pot + bets[0] + bets[1] - rake, and pot and bets are zero afterwards.  The
\* rake is what left the escrow for the treasury.
C13_ShowdownPayout ==
    Succeeded("determine_winner_callback") =>
        LET before == ix.before.gs
            result == ix.arg.amount
            after_rake == TotalPot(before) - RakeTaken
            out_of_position == 1 - before.dealer_index
        IN  /\ ix.before.tokens.escrow - tokens.escrow = RakeTaken
            /\ result \in {0, 1} =>
                   /\ At(gs.stacks, result) = At(before.stacks, result) + after_rake
                   /\ At(gs.stacks, 1 - result) = At(before.stacks, 1 - result)
            /\ result = 2 =>
                   /\ At(gs.stacks, out_of_position)
                          = At(before.stacks, out_of_position)
                              + (after_rake \div 2) + (after_rake % 2)
                   /\ At(gs.stacks, before.dealer_index)
                          = At(before.stacks, before.dealer_index) + (after_rake \div 2)
            /\ At(gs.stacks, 0) + At(gs.stacks, 1)
                   = At(before.stacks, 0) + At(before.stacks, 1) + after_rake
            /\ gs.pot = 0
            /\ gs.bets = <<0, 0>>

\* A tie settled on an odd after-rake pot: a pot of 4 with a flop dealt, a
\* rake of 1, and the odd chip in the stack of the player out of position.
C13_Witness ==
    /\ Succeeded("determine_winner_callback")
    /\ ix.arg.amount = 2
    /\ TotalPot(ix.before.gs) = 4
    /\ RakeTaken = 1
    /\ At(gs.stacks, 1 - ix.before.gs.dealer_index)
           = At(ix.before.gs.stacks, 1 - ix.before.gs.dealer_index) + 2
    /\ At(gs.stacks, ix.before.gs.dealer_index)
           = At(ix.before.gs.stacks, ix.before.gs.dealer_index) + 1

\* C14: "No Flop, No Drop".  The rake a showdown settlement takes is 0 when
\* community_cards[0] is 255, and otherwise floor(total_pot * rake_percentage
\* / 100) capped at rake_cap, with total_pot = pot + bets[0] + bets[1].
C14_RakeRule ==
    Succeeded("determine_winner_callback") =>
        LET before == ix.before.gs
            percent == (TotalPot(before) * config.rake_percentage) \div 100
        IN  RakeTaken = IF At(before.community_cards, 0) = 255 THEN 0
                        ELSE IF percent > config.rake_cap THEN config.rake_cap
                        ELSE percent

\* A settlement with the flop dealt whose percentage exceeds the cap: the
\* rake is the cap.
C14_Witness ==
    /\ Succeeded("determine_winner_callback")
    /\ At(ix.before.gs.community_cards, 0) # 255
    /\ (TotalPot(ix.before.gs) * config.rake_percentage) \div 100 > config.rake_cap
    /\ RakeTaken = config.rake_cap
    /\ RakeTaken > 0

\* C15: player_action succeeds only when the signer is
\* players[current_turn_index] and the phase is PreFlop, Flop, Turn or River;
\* another signer is rejected with NotPlayerTurn, the player to act in
\* another phase with InvalidAction; and every rejected player_action leaves
\* GameState (and the other accounts) as it found them.
C15_TurnEnforcement ==
    ix.name = "player_action" =>
        LET before == ix.before.gs
            to_act == At(before.players, before.current_turn_index)
            betting == before.game_phase \in {"PreFlop", "Flop", "Turn", "River"}
        IN  /\ ix.result = "Ok" => ix.signer = to_act /\ betting
            /\ ix.signer # to_act => ix.result = "NotPlayerTurn"
            /\ ix.signer = to_act /\ ~betting => ix.result = "InvalidAction"
            /\ ix.result # "Ok" =>
                   /\ gs = before
                   /\ hand_state = ix.before.hand_state
                   /\ tokens = ix.before.tokens

\* The player to act folds at showdown, while the winner is being
\* determined, and is rejected with InvalidAction.
C15_Witness ==
    /\ Rejected("player_action", "InvalidAction")
    /\ ix.arg.kind = "Fold"
    /\ ix.signer = At(gs.players, gs.current_turn_index)
    /\ gs.game_phase = "Showdown"
    /\ gs.pot > 0
    /\ gs = ix.before.gs

\* C16: a successful Fold adds pot + bets[0] + bets[1] to the opponent's
\* stack and leaves the folder's stack alone; the phase is HandOver, pot 0,
\* bets [0, 0], community_cards all 255, is_all_in all false, the dealer
\* button has moved to the other seat and current_turn_index is the new
\* dealer_index.
C16_Fold ==
    (Succeeded("player_action") /\ ix.arg.kind = "Fold") =>
        LET before == ix.before.gs
            folder == before.current_turn_index
            opponent == 1 - folder
        IN  /\ At(gs.stacks, opponent) = At(before.stacks, opponent) + TotalPot(before)
            /\ At(gs.stacks, folder) = At(before.stacks, folder)
            /\ gs.game_phase = "HandOver"
            /\ gs.pot = 0
            /\ gs.bets = <<0, 0>>
            /\ gs.community_cards = <<255, 255, 255, 255, 255>>
            /\ gs.is_all_in = <<FALSE, FALSE>>
            /\ gs.dealer_index = 1 - before.dealer_index
            /\ gs.current_turn_index = gs.dealer_index
            /\ gs.players = before.players

\* A fold on the flop facing a bet: a pot, two unequal bets and dealt cards
\* are on the table, and the folder is the dealer.
C16_Witness ==
    /\ Succeeded("player_action")
    /\ ix.arg.kind = "Fold"
    /\ ix.before.gs.game_phase = "Flop"
    /\ ix.before.gs.pot > 0
    /\ At(ix.before.gs.bets, 0) # At(ix.before.gs.bets, 1)
    /\ At(ix.before.gs.community_cards, 0) # 255
    /\ ix.before.gs.current_turn_index = ix.before.gs.dealer_index
    /\ gs.game_phase = "HandOver"

\* C19: crank_fold is rejected, with GameState unchanged, unless the phase
\* is a betting phase (else InvalidAction) and the clock is strictly past
\* last_action_timestamp + TURN_TIME_SECONDS (else TimerNotExpired); the
\* instruction takes no signer, so whoever sends it is served alike.
C19_CrankFoldGuards ==
    ix.name = "crank_fold" =>
        LET before == ix.before.gs
            betting == before.game_phase \in {"PreFlop", "Flop", "Turn", "River"}
            expired == ix.before.clock
                           > before.last_action_timestamp + TURN_TIME_SECONDS
        IN  /\ ix.result = "Ok" <=> betting /\ expired
            /\ ~betting => ix.result = "InvalidAction"
            /\ betting /\ ~expired => ix.result = "TimerNotExpired"
            /\ ix.result # "Ok" =>
                   /\ gs = before
                   /\ hand_state = ix.before.hand_state
                   /\ tokens = ix.before.tokens
            /\ ix.result = "Ok" => gs.game_phase = "HandOver"

\* crank_fold sent at the very second the timer runs out, in a betting
\* phase: it is rejected with TimerNotExpired.
C19_Witness ==
    /\ Rejected("crank_fold", "TimerNotExpired")
    /\ gs.game_phase \in {"PreFlop", "Flop", "Turn", "River"}
    /\ ix.before.clock = gs.last_action_timestamp + TURN_TIME_SECONDS
    /\ gs = ix.before.gs

\* What deal_new_hand_setup leaves on success: the phase is Dealing, pot 0,
\* bets [0, 0], community_cards all 255, is_all_in all false; stacks,
\* players and dealer_index are as before.
DealNewHandSetupEffects ==
    /\ gs.game_phase = "Dealing"
    /\ gs.pot = 0
    /\ gs.bets = <<0, 0>>
    /\ gs.community_cards = <<255, 255, 255, 255, 255>>
    /\ gs.is_all_in = <<FALSE, FALSE>>
    /\ gs.stacks = ix.before.gs.stacks
    /\ gs.players = ix.before.gs.players
    /\ gs.dealer_index = ix.before.gs.dealer_index

\* C20 as stated: deal_new_hand_setup succeeds only in phase HandOver or
\* Idle (else InvalidAction), for the signer players[dealer_index] (else
\* Unauthorized), with both seats occupied (else InvalidAction), and on
\* success leaves the effects above.
C20_ErrorCodesAsStated ==
    ix.name = "deal_new_hand_setup" =>
        LET before == ix.before.gs
            phase_ok == before.game_phase \in {"HandOver", "Idle"}
            is_dealer == ix.signer = At(before.players, before.dealer_index)
            seated == At(before.players, 0) # 0 /\ At(before.players, 1) # 0
        IN  /\ ix.result = "Ok" => phase_ok /\ is_dealer /\ seated
            /\ ~phase_ok => ix.result = "InvalidAction"
            /\ phase_ok /\ ~is_dealer => ix.result = "Unauthorized"
            /\ phase_ok /\ is_dealer /\ ~seated => ix.result = "InvalidAction"
            /\ ix.result = "Ok" => DealNewHandSetupEffects

\* C20, amended: deal_new_hand_setup succeeds only in phase HandOver or Idle,
\* for the signer players[dealer_index], with both seats occupied; while a
\* HandState account exists, as it does in every phase other than HandOver
\* and Idle, the `init` constraint on hand_state rejects the call before the
\* handler runs, so the error is not InvalidAction or Unauthorized; with no
\* HandState, another signer is rejected with Unauthorized and an empty
\* seat with InvalidAction; a rejected call changes nothing, and on success
\* the effects are those stated.
C20_DealNewHandSetup ==
    ix.name = "deal_new_hand_setup" =>
        LET before == ix.before.gs
            phase_ok == before.game_phase \in {"HandOver", "Idle"}
            is_dealer == ix.signer = At(before.players, before.dealer_index)
            seated == At(before.players, 0) # 0 /\ At(before.players, 1) # 0
            in_use == ix.before.hand_state.exists
        IN  /\ ix.result = "Ok" => phase_ok /\ is_dealer /\ seated
            /\ in_use => ix.result = "AccountAlreadyInUse"
            /\ ~phase_ok => in_use
            /\ ~in_use /\ phase_ok /\ ~is_dealer => ix.result = "Unauthorized"
            /\ ~in_use /\ phase_ok /\ is_dealer /\ ~seated => ix.result = "InvalidAction"
            /\ ix.result # "Ok" =>
                   /\ gs = before
                   /\ hand_state = ix.before.hand_state
            /\ ix.result = "Ok" => DealNewHandSetupEffects /\ hand_state.exists

\* The second hand of a table: after a showdown moved the button, the new
\* dealer (seat 1) starts the hand and keeps the stacks the showdown left.
C20_Witness ==
    /\ Succeeded("deal_new_hand_setup")
    /\ ix.before.gs.game_phase = "HandOver"
    /\ ix.before.gs.dealer_index = 1
    /\ ix.signer = At(gs.players, 1)
    /\ gs.stacks # <<3, 3>>
    /\ gs.game_phase = "Dealing"
    /\ hand_state.exists

\* C18: the HandState account is created at the start of a hand and closed
\* at its end, however the hand ends, so whenever the table is in HandOver
\* or Idle no HandState exists (and deal_new_hand_setup, which creates it
\* afresh, can start the next hand).
C18_NoHandStateBetweenHands ==
    gs.game_phase \in {"HandOver", "Idle"} => ~hand_state.exists

\* C17: the game can always proceed.  From every reachable state in which a
\* hand is in progress (Dealing, PreFlop, Flop, Turn, River or Showdown) the
\* table eventually reaches HandOver, given that crank_fold is sent once a
\* turn timer has run out and that the network delivers its callbacks.
C17_HandEventuallyOver ==
    (gs.game_phase \in HandPhases) ~> (gs.game_phase = "HandOver")

\* The seats of g this key occupies.
SeatsOf(g, key) == {i \in {0, 1} : At(g.players, i) = key}

\* C21: leave_table succeeds only in phase Idle or HandOver (else
\* HandNotOver) and only for a signer seated at the table (else
\* PlayerNotInGame); a seated signer who leaves between hands succeeds, and
\* then exactly the leaver's stack is transferred from escrow to them, their
\* seat is empty with stack 0, the table is inactive and Idle and still
\* there, and the other player's seat and stack are unchanged.
C21_LeaveTableAsStated ==
    ix.name = "leave_table" =>
        LET b == ix.before.gs
            t == ix.before.tokens
            between_hands == b.game_phase \in {"Idle", "HandOver"}
            seated == SeatsOf(b, ix.signer)
        IN  /\ ~between_hands => ix.result = "HandNotOver"
            /\ between_hands /\ seated = {} => ix.result = "PlayerNotInGame"
            /\ between_hands /\ seated # {} =>
                   /\ ix.result = "Ok"
                   /\ \E i \in seated :
                          /\ tokens.escrow = t.escrow - At(b.stacks, i)
                          /\ tokens.wallet[ix.signer] = t.wallet[ix.signer] + At(b.stacks, i)
                          /\ At(gs.players, i) = DefaultPubkey
                          /\ At(gs.stacks, i) = 0
                          /\ At(gs.players, 1 - i) = At(b.players, 1 - i)
                          /\ At(gs.stacks, 1 - i) = At(b.stacks, 1 - i)
                   /\ ~gs.is_active
                   /\ gs.game_phase = "Idle"
                   /\ game_state_loads(gs)

\* C22: after a leave_table that succeeds while the other player remains,
\* for either vacated seat, a join_table by a key that is not at the table
\* and holds the buy-in succeeds, seats that key in the vacated seat with
\* stack buy_in, and leaves the remaining player's seat and stack intact.
C22_VacatedSeatCanBeJoined ==
    \A i \in {0, 1} :
        ( /\ Succeeded("leave_table")
          /\ At(ix.before.gs.players, i) = ix.signer
          /\ At(ix.before.gs.players, 1 - i) # DefaultPubkey
          /\ At(ix.before.gs.players, 1 - i) # ix.signer )
        => /\ game_state_loads(gs)
           /\ \A joiner \in Signers :
                  SeatsOf(gs, joiner) = {} =>
                      LET funded == [tokens EXCEPT !.wallet[joiner] = table_config.buy_in]
                          r == join_table(gs, table_config, funded, joiner)
                      IN  /\ r.result = "Ok"
                          /\ At(r.gs.players, i) = joiner
                          /\ At(r.gs.stacks, i) = table_config.buy_in
                          /\ At(r.gs.players, 1 - i) = At(gs.players, 1 - i)
                          /\ At(r.gs.stacks, 1 - i) = At(gs.stacks, 1 - i)

\* C23: a Raise(amount) by the player to act in a betting phase is accepted
\* only if amount exceeds the opponent's current bet by at least the amount
\* the opponent's bet exceeds the raiser's current bet, and amount is at most
\* the raiser's stack plus own bet; a raise to at least the raiser's own bet
\* that is smaller than that is rejected with InvalidBetAmount and changes
\* nothing.
C23_MinRaiseAsStated ==
    ( /\ ix.name = "player_action"
      /\ ix.arg.kind = "Raise"
      /\ ix.before.gs.game_phase \in BettingPhases
      /\ At(ix.before.gs.players, ix.before.gs.current_turn_index) = ix.signer )
    => LET b == ix.before.gs
           player_index == b.current_turn_index
           player_bet == At(b.bets, player_index)
           opponent_bet == At(b.bets, 1 - player_index)
           amount == ix.arg.amount
           full_raise == amount - opponent_bet >= opponent_bet - player_bet
       IN  /\ ix.result = "Ok" =>
                  /\ full_raise
                  /\ amount <= At(b.stacks, player_index) + player_bet
           /\ (amount >= player_bet /\ opponent_bet >= player_bet /\ ~full_raise) =>
                  /\ ix.result = "InvalidBetAmount"
                  /\ gs = b

\* All five community cards of g have been dealt.
BoardComplete(g) == \A i \in 0..4 : At(g.community_cards, i) # UNDEALT

\* C24: in every reachable state where determine_winner is requested or
\* settled, all five community cards differ from 255: while the computation
\* is outstanding the board is complete, and the board a successful
\* determine_winner_callback found was complete.
C24_BoardCompleteAtShowdown ==
    /\ (\E c \in pending : c.circuit = "determine_winner") => BoardComplete(gs)
    /\ Succeeded("determine_winner_callback") => BoardComplete(ix.before.gs)

\* What a successful shuffle_and_deal_callback leaves: the dealer (index
\* dealer_index) has posted exactly small_blind and the other player exactly
\* big_blind, their stacks are lower by the blind and their bets are the
\* blind; the phase is PreFlop and the dealer is first to act.
BlindsPosted ==
    LET b == ix.before.gs
        small_blind_idx == b.dealer_index
        big_blind_idx == 1 - b.dealer_index
    IN  /\ ix.arg.kind = "Success"
        /\ At(gs.stacks, small_blind_idx)
               = At(b.stacks, small_blind_idx) - table_config.small_blind
        /\ At(gs.bets, small_blind_idx) = table_config.small_blind
        /\ At(gs.stacks, big_blind_idx)
               = At(b.stacks, big_blind_idx) - table_config.big_blind
        /\ At(gs.bets, big_blind_idx) = table_config.big_blind
        /\ gs.game_phase = "PreFlop"
        /\ gs.dealer_index = b.dealer_index
        /\ gs.current_turn_index = b.dealer_index

\* The transaction the state records changed no account.
NothingChanged ==
    /\ gs = ix.before.gs
    /\ hand_state = ix.before.hand_state
    /\ tokens = ix.before.tokens

ChipsOnTable(g) == At(g.stacks, 0) + At(g.stacks, 1) + TotalPot(g)

\* C26: escrow solvency.  In every reachable state of a table the escrow
\* token balance equals stacks[0] + stacks[1] + pot + bets[0] + bets[1];
\* every player_action and crank_fold keeps that sum constant, and only
\* join_table (plus buy_in), leave_table (minus the withdrawn stack) and the
\* showdown settlement (minus the rake) change it.
C26_EscrowSolvency ==
    LET b == ix.before.gs
        change == ChipsOnTable(gs) - ChipsOnTable(b)
    IN  /\ tokens.escrow = ChipsOnTable(gs)
        /\ ix.name \in {"player_action", "crank_fold"} => change = 0
        /\ Succeeded("join_table") => change = table_config.buy_in
        /\ Succeeded("leave_table") =>
               \E i \in SeatsOf(b, ix.signer) : change = 0 - At(b.stacks, i)
        /\ Succeeded("determine_winner_callback") => change = 0 - RakeTaken
        /\ ix.name \notin {"join_table", "leave_table", "determine_winner_callback"}
               => change = 0

\* C27: no betting round closes before both players have had the chance to
\* act in it.  On Flop, Turn and River the non-dealer acts first, so a Check
\* that advances the phase is the dealer's; pre-flop, when the small blind
\* (the dealer) merely calls the big blind, the phase stays PreFlop and the
\* big blind is next to act.
C27_BothPlayersAct ==
    Succeeded("player_action") =>
        LET b == ix.before.gs
            dealer == At(b.players, b.dealer_index)
        IN  /\ ( /\ b.game_phase \in {"Flop", "Turn", "River"}
                 /\ ix.arg.kind = "Check"
                 /\ gs.game_phase # b.game_phase )
               => ix.signer = dealer
            /\ ( /\ b.game_phase = "PreFlop"
                 /\ ix.arg.kind = "Call"
                 /\ ix.signer = dealer
                 /\ At(b.bets, b.dealer_index) = table_config.small_blind
                 /\ At(b.bets, 1 - b.dealer_index) = table_config.big_blind
                 /\ At(b.stacks, 1 - b.dealer_index) > 0 )
               => /\ gs.game_phase = "PreFlop"
                  /\ gs.current_turn_index = 1 - b.dealer_index

\* ------------------------------------------------------------------------
\* Claims checked under SpecReveal (the reveal_community_cards circuit)
\* ------------------------------------------------------------------------
\* The phase arguments of the calls made so far.
RevealPhases == [k \in 1..Len(reveals) |-> reveals[k].phase]

\* C28: reveal_community_cards with phase 0 reveals the three deck cards at
\* positions dealt_community_cards..+2 and advances the counter by 3; with
\* phase 1 or 2 it reveals the single card at position
\* dealt_community_cards and advances the counter by 1; the unused output
\* slots are 255; any other phase value leaves the deck unchanged.  The
\* sequence flop, turn, river on a fresh deck reveals the deck positions
\* 0..4, five distinct cards, and ends with dealt_community_cards = 5.
C28_RevealCommunityCards ==
    pc = "dealt" =>
        /\ \A k \in 1..Len(reveals) :
               LET call == reveals[k]
                   dealt == call.deck_ctxt.dealt_community_cards
                   position(i) == call.deck_ctxt.cards[i + 1]
               IN  /\ call.phase = 0 =>
                          /\ call.revealed_cards
                                 = <<position(dealt), position(dealt + 1), position(dealt + 2)>>
                          /\ call.deck.dealt_community_cards = dealt + 3
                   /\ call.phase \in {1, 2} =>
                          /\ call.revealed_cards = <<position(dealt), 255, 255>>
                          /\ call.deck.dealt_community_cards = dealt + 1
                   /\ call.phase \notin {0, 1, 2} =>
                          /\ call.revealed_cards = <<255, 255, 255>>
                          /\ call.deck = call.deck_ctxt
        /\ RevealPhases = <<0, 1, 2>> =>
               LET fresh == sd.board_deck
                   shown == <<reveals[1].revealed_cards[1], reveals[1].revealed_cards[2],
                              reveals[1].revealed_cards[3], reveals[2].revealed_cards[1],
                              reveals[3].revealed_cards[1]>>
               IN  /\ fresh.dealt_community_cards = 0
                   /\ \A i \in 1..5 : shown[i] = fresh.cards[i]
                   /\ Cardinality(CardsOf(shown)) = 5
                   /\ CurrentDeck.dealt_community_cards = 5

C28_Witness ==
    /\ pc = "dealt"
    /\ RevealPhases = <<0, 1, 2>>
    /\ rng.rot > 0
    /\ rng.swap[1] < rng.swap[2]

\* ------------------------------------------------------------------------
\* Claims checked under SpecEval (the kicker expansion)
\* ------------------------------------------------------------------------
\* array[1] + ... + array[n]
RECURSIVE SumOfFirst(_, _)
SumOfFirst(array, n) == IF n = 0 THEN 0 ELSE SumOfFirst(array, n - 1) + array[n]

\* How many of the five slots of kickers hold the rank r.
SlotsHolding(kickers, r) == Cardinality({i \in 1..5 : kickers[i] = r})

\* The kicker expansion of one evaluation filled the five slots with the
\* hand's ranks, each as often as the histogram counts it.
ExpansionComplete(ev) ==
    /\ SumOfFirst(ev.rank_counts, 13) = 5
    /\ \A r \in 0..12 : SlotsHolding(ev.generic_kickers, r) = ev.rank_counts[r + 1]
    /\ ev.kicker_idx = 5

\* C29: for every valid 5-card hand the rank histogram counts sum to 5 and,
\* before the wheel override, the kicker expansion has filled the five
\* kicker slots with exactly the multiset of the hand's five ranks, each
\* rank r appearing rank_counts[r] times, and kicker_idx ends at 5; in both
\* evaluate_hand functions, and with the histogram being that of the hand.
C29_KickerExpansion ==
    pc = "evaluatedA" =>
        /\ ExpansionComplete(evA)
        /\ ExpansionComplete(heA)
        /\ \A r \in 0..12 :
               evA.rank_counts[r + 1]
                   = Cardinality({i \in 1..5 : card_rank(handA[i]) = r})

\* The wheel As 2h 3s 5s 4s: the expansion holds A 5 4 3 2 before the
\* override, the Two (rank 0) written to the last slot.
C29_Witness ==
    /\ pc = "evaluatedA"
    /\ IsWheelHand(handA)
    /\ evA.generic_kickers = <<12, 3, 2, 1, 0>>
    /\ heA.generic_kickers = <<12, 3, 2, 1, 0>>
    /\ evA.kicker_idx = 5
    /\ evA.ordered_kickers # evA.generic_kickers

====
